---------------------------- MODULE Spec2Model ----------------------------
(***************************************************************************)
(* Contactless attendance via face recognition.                            *)
(*                                                                         *)
(* The state machines of this module:                                      *)
(*   SpecAttend  the Camera page (handleCapture / sendAttendance): one     *)
(*               action per continuation between two awaits;               *)
(*   SpecIngest  the validate-face-image edge function: one action per     *)
(*               step of the request handler;                              *)
(*   SpecEnroll  the FaceEnrollment component (uploadPhotos);              *)
(*   SpecData    the database under its row-level policies;                *)
(*   SpecScan    the QRScanner page (startScanner / handleQRCodeScanned);  *)
(*   SpecMail    the send-attendance-email edge function.                  *)
(* Each specification leaves the other machines' variables unchanged.      *)
(***************************************************************************)
EXTENDS Integers, Sequences, FiniteSets, TLC

(***************************************************************************)
(* Bounds of the model.                                                    *)
(***************************************************************************)
\* Capture clicks followed on one page instance.
MaxSubmissions == 2
\* Clicks on the enrollment's upload button followed.
MaxBatches == 2
\* Rows of attendance_records and objects of the bucket in the database model.
MaxRecords == 1
MaxObjects == 1
\* Invocations of the QR decode callback and scanner sessions followed.
MaxScans == 2
MaxStarts == 1

Principals == {"u1", "u2"}
Null == "null"

VARIABLES
    \* ---- Camera page (React state, refs and the running async function)
    user,            \* useState<User|null>: session.user.id or Null
    profile,         \* useState<any>: the id of the loaded profile row or Null
    isProcessing,    \* useState(false)
    status,          \* "scanning" | "success" | "error" | "completed"
    message,         \* the status message shown
    hasDetectedRef,  \* useRef(false)
    captured,        \* whose face the detector found in the frame (not read by the page)
    pc,              \* where the handleCapture/sendAttendance coroutine is suspended
    sub,             \* number of the current submission (capture click)
    queued,          \* invocations of handleCapture awaiting the detector besides the
                     \* one pc follows
    imageUrl,        \* sendAttendance local: let imageUrl = null
    uploadError,     \* sendAttendance local: result of storage upload ("none" before)
    urlError,        \* sendAttendance local: result of createSignedUrl
    dbError,         \* sendAttendance local: result of the insert
    \* ---- collaborators of the Camera page
    storage,         \* objects of bucket face-images: set of [owner, sub]
    attendance_records, \* rows of public.attendance_records, in insert order
    log,             \* calls made to collaborators: sequence of [sub, op, res]
    \* ---- validate-face-image (one request)
    request,         \* [authHeader, bodyOk, userId, imageData]
    profileRead,     \* what the read of profiles.face_photos returns
    img,             \* the image the client encoded into imageData (not read by the handler)
    ipc,             \* the handler's position
    authUser,        \* user returned by auth.getUser
    bytes,           \* the decoded Uint8Array
    offset,          \* the cursor of the JPEG marker walk
    response,        \* the response returned
    executed,        \* the steps the handler has run, in order
    \* ---- FaceEnrollment component and the profile row it writes
    newUserId,       \* Auth page state passed as the userId prop
    session,         \* the principal of the supabase client's session, or "none"
    photos,          \* useState<string[]>: the photos chosen, as data URLs
    uploading,       \* useState(false)
    epc,             \* where uploadPhotos is suspended
    photoIndex,      \* uploadPhotos local: the loop variable i
    uploadedUrls,    \* uploadPhotos local
    batches,         \* number of runs of uploadPhotos so far
    toast,           \* the last toast shown
    face_photos,     \* profiles.face_photos of the row with id = newUserId
    \* ---- database
    auth_users,      \* ids of the rows of auth.users
    profiles,        \* ids of the rows of public.profiles
    statement,       \* the last statement issued and whether it took effect
    \* ---- QRScanner page (React state, refs, the scanner of html5-qrcode and
    \* the running invocations of handleQRCodeScanned)
    route,           \* the page shown: "qr", "/" or "/history"
    qsession,        \* the principal of the supabase client's session, or "none"
    scanning,        \* useState(false)
    qstatus,         \* the value last given to setStatus
    scannerRef,      \* useRef: 0 (null) or the number of the Html5Qrcode object held
    scanner,         \* the Html5Qrcode object of each started session: "starting",
                     \* "running", "stopping", "stopped" or "failed"
    starts,          \* number of scanner sessions started
    inv,             \* number of invocations of the decode callback
    qpc,             \* where each invocation of handleQRCodeScanned is suspended
    qrCode,          \* the decoded text of each invocation
    qstart,          \* the scanner session whose callback made the invocation
    qtarget,         \* stopScanner: the object whose stop() the invocation awaits, or 0
    qprofile,        \* handleQRCodeScanned local: the id of the profile found
    quser,           \* handleQRCodeScanned local: session.user.id ("none" without one)
    resetTimers,     \* armed setTimeout(..., 3000) resets of the status
    navTimer,        \* the setTimeout(..., 2000) to /history is armed
    qlog,            \* insert and notification calls: set of [start, inv, op, res]
    \* ---- send-attendance-email (one request)
    mreq,            \* [method, authHeader, bodyOk, email]
    mpc,             \* the handler's position
    muser,           \* user returned by auth.getUser
    mresponse,       \* the HTTP status returned, 0 before
    sent             \* recipients resend.emails.send was called with

attVars == <<user, profile, isProcessing, status, message, hasDetectedRef, captured, pc, sub,
             queued,
             imageUrl, uploadError, urlError, dbError, storage, attendance_records, log>>

ingVars == <<request, profileRead, img, ipc, authUser, bytes, offset, response, executed>>

\* The Camera page without its collaborators.
pageVars == <<user, profile, isProcessing, status, message, hasDetectedRef, captured, pc, sub,
              queued,
              imageUrl, uploadError, urlError, dbError>>

enrVars == <<newUserId, session, photos, uploading, epc, photoIndex, uploadedUrls, batches,
             toast, face_photos>>

dbVars == <<auth_users, profiles, statement>>

qrVars == <<route, qsession, scanning, qstatus, scannerRef, scanner, starts, inv, qpc,
            qrCode, qstart, qtarget, qprofile, quser, resetTimers, navTimer, qlog>>

fnVars == <<mreq, mpc, muser, mresponse, sent>>

vars == <<attVars, ingVars, enrVars, dbVars, qrVars, fnVars>>

(***************************************************************************)
(* validate-face-image: byte sequences and base64 text                     *)
(*                                                                         *)
(* A Uint8Array of up to 5 MB is kept sparse: its length, the bytes at the *)
(* indices in DOMAIN patches, and elsewhere the byte fill[(i % 3) + 1].    *)
(* A base64 string is kept the same way over its characters, each char a   *)
(* sextet 0..63 (BadChar: a character outside the base64 alphabet), with   *)
(* the period 4 and the number of trailing '=' characters.                 *)
(***************************************************************************)
\* Reading bytes[i] at or past bytes.length yields undefined.
Undefined == -1
\* A character that is not in the base64 alphabet.
BadChar == 64

ByteAt(arr, i) ==
    IF i < 0 \/ i >= arr.len THEN Undefined
    ELSE IF i \in DOMAIN arr.patches THEN arr.patches[i]
    ELSE arr.fill[(i % 3) + 1]

\* ToInt32 of a byte read, as the operands of << and | are converted:
\* undefined becomes 0.
ToInt(b) == IF b = Undefined THEN 0 ELSE b

CharAt(text, k) ==
    IF k \in DOMAIN text.patches THEN text.patches[k] ELSE text.fill[(k % 4) + 1]

\* The sextet at k, 0 where the string has ended (the bits a short last group lacks).
SextetAt(text, k) == IF k >= text.n THEN 0 ELSE CharAt(text, k)

\* The three bytes a group of four sextets decodes to.
DecodeGroup(s0, s1, s2, s3) ==
    << s0 * 4 + (s1 \div 16), (s1 % 16) * 16 + (s2 \div 4), (s2 % 4) * 64 + s3 >>

\* The four sextets a group of three bytes encodes to.
EncodeGroup(b0, b1, b2) ==
    << b0 \div 4, (b0 % 4) * 16 + (b1 \div 16), (b1 % 16) * 4 + (b2 \div 64), b2 % 64 >>

\* Number of bytes that n base64 characters decode to (n % 4 # 1).
DecodedLength(n) == 3 * (n \div 4) + (CASE n % 4 = 2 -> 1 [] n % 4 = 3 -> 2 [] OTHER -> 0)

\* atob accepts its argument (forgiving-base64 decode): trailing '=' are removed
\* only when the whole length is a multiple of 4 and there are at most two; a
\* remaining '=' or any other character outside the alphabet, or a remaining
\* length of 1 modulo 4, throws InvalidCharacterError.
atobAccepts(text) ==
    /\ text.pad > 0 => (text.n + text.pad) % 4 = 0 /\ text.pad <= 2
    /\ text.n % 4 # 1
    /\ \A k \in DOMAIN text.patches : k < text.n => text.patches[k] # BadChar
    /\ \A j \in 1..4 : text.fill[j] # BadChar

\* atob followed by the charCodeAt loop: the Uint8Array `bytes`.
atob(text) ==
    LET len == DecodedLength(text.n)
        groups == {k \div 4 : k \in {x \in DOMAIN text.patches : x < text.n}}
        idx == {i \in {3 * g + j : g \in groups, j \in 0..2} : i < len}
        grp(g) == DecodeGroup(SextetAt(text, 4 * g), SextetAt(text, 4 * g + 1),
                              SextetAt(text, 4 * g + 2), SextetAt(text, 4 * g + 3))
    IN [len |-> len,
        fill |-> DecodeGroup(text.fill[1], text.fill[2], text.fill[3], text.fill[4]),
        patches |-> [i \in idx |-> grp(i \div 3)[(i % 3) + 1]]]

\* The base64 text of a data URL produced by the browser for these bytes
\* (canvas.toDataURL, FileReader.readAsDataURL): padded with '='.
btoa(arr) ==
    LET q == arr.len \div 3
        r == arr.len % 3
        n == 4 * q + (CASE r = 1 -> 2 [] r = 2 -> 3 [] OTHER -> 0)
        groups == {i \div 3 : i \in {x \in DOMAIN arr.patches : x < arr.len}}
                     \cup (IF r = 0 THEN {} ELSE {q})
        idx == {k \in {4 * g + j : g \in groups, j \in 0..3} : k < n}
        grp(g) == EncodeGroup(ToInt(ByteAt(arr, 3 * g)), ToInt(ByteAt(arr, 3 * g + 1)),
                              ToInt(ByteAt(arr, 3 * g + 2)))
    IN [n |-> n,
        fill |-> EncodeGroup(arr.fill[1], arr.fill[2], arr.fill[3]),
        patches |-> [k \in idx |-> grp(k \div 4)[(k % 4) + 1]],
        pad |-> (CASE r = 1 -> 2 [] r = 2 -> 1 [] OTHER -> 0)]

\* A byte sequence with the given leading bytes, then `fill` up to length len.
Bytes(head, len, fill) ==
    [len |-> len,
     fill |-> <<fill, fill, fill>>,
     patches |-> [i \in {x \in 0..(Len(head) - 1) : x < len} |-> head[i + 1]]]

(***************************************************************************)
(* validate-face-image: constants and the validator's pure steps           *)
(***************************************************************************)
MAX_FILE_SIZE == 5 * 1024 * 1024
MIN_FILE_SIZE == 1000
MIN_DIMENSION == 100
MAX_DIMENSION == 4000
MAX_UPLOADS_PER_DAY == 20

\* In the order Object.entries(MAGIC_BYTES) yields them.
MAGIC_BYTES ==
    << [format |-> "jpeg", magic |-> <<255, 216, 255>>],
       [format |-> "png",  magic |-> <<137, 80, 78, 71>>],
       [format |-> "webp", magic |-> <<82, 73, 70, 70>>] >>

ErrMissingAuth == "Missing authorization header"
ErrUnauthorized == "Unauthorized"
ErrOtherUser == "Unauthorized: Cannot upload for another user"
ErrLimit == "Upload limit exceeded. Maximum 20 photos allowed."
ErrJson == "Unexpected token in JSON"
ErrDataFormat == "Invalid image data format"
ErrBase64 == "Failed to decode base64"
ErrFileTooLarge == "File too large. Maximum size: 5MB"
ErrFileTooSmall == "File too small. Minimum size: 1KB"
ErrFormat == "Invalid image format. Only JPEG, PNG, and WebP are allowed."
ErrDimTooSmall == "Image too small. Minimum dimensions: 100x100"
ErrDimTooLarge == "Image too large. Maximum dimensions: 4000x4000"

\* The two responses of the handler.
Accept(format, size) ==
    [valid |-> TRUE, httpStatus |-> 200, error |-> "", format |-> format, size |-> size]

Reject(error) ==
    [valid |-> FALSE, httpStatus |-> 400, error |-> error, format |-> "", size |-> 0]

\* "ok" or the message of the error thrown by the file size checks.
SizeGateInclusive(arr) ==
    IF arr.len >= MAX_FILE_SIZE THEN ErrFileTooLarge
    ELSE IF arr.len <= MIN_FILE_SIZE THEN ErrFileTooSmall
    ELSE "ok"

SizeGate(arr) ==
    IF arr.len > MAX_FILE_SIZE THEN ErrFileTooLarge
    ELSE IF arr.len < MIN_FILE_SIZE THEN ErrFileTooSmall
    ELSE "ok"

\* magic.every((byte, i) => bytes[i] === byte)
MagicMatchesTwoBytes(magic, arr) ==
    \A i \in 1..2 : ByteAt(arr, i - 1) = magic[i]

MagicMatches(magic, arr) ==
    \A i \in 1..Len(magic) : ByteAt(arr, i - 1) = magic[i]

\* The loop over the signatures in the given order: the first match wins,
\* "" (validFormat false) when none matches.
DetectFormatIn(order, arr) ==
    LET hits == {k \in 1..Len(order) : MagicMatches(order[k].magic, arr)}
    IN IF hits = {} THEN ""
       ELSE order[CHOOSE k \in hits : \A j \in hits : k <= j].format

DetectFormat(arr) == DetectFormatIn(MAGIC_BYTES, arr)

\* marker >= 0xC0 && marker <= 0xCF && marker !== 0xC4 && !== 0xC8 && !== 0xCC
\* (false for an undefined marker)
IsSOF(marker) ==
    marker >= 192 /\ marker <= 207 /\ marker # 196 /\ marker # 200 /\ marker # 204

\* (hi << 8) | lo
Read16(arr, i) == ToInt(ByteAt(arr, i)) * 256 + ToInt(ByteAt(arr, i + 1))

\* The high byte of a 32-bit value as `b << 24` yields it: bit 7 is the sign.
SignedHigh(b) == IF b >= 128 THEN b - 256 ELSE b

\* (b0 << 24) | (b1 << 16) | (b2 << 8) | b3, a signed 32-bit integer
Read32(arr, i) ==
    SignedHigh(ToInt(ByteAt(arr, i))) * 16777216 + ToInt(ByteAt(arr, i + 1)) * 65536
        + ToInt(ByteAt(arr, i + 2)) * 256 + ToInt(ByteAt(arr, i + 3))

NoDimensions == [found |-> FALSE, width |-> 0, height |-> 0]

\* Height and width of the SOF segment whose marker-type byte is at cursor - 1
\* (cursor is the offset after `offset += 2`).
SofDimensionsFromMarker(arr, cursor) ==
    [found |-> TRUE, width |-> Read16(arr, cursor + 4), height |-> Read16(arr, cursor + 2)]

SofDimensions(arr, cursor) ==
    [found |-> TRUE, width |-> Read16(arr, cursor + 5), height |-> Read16(arr, cursor + 3)]

\* offset += segmentLength, with cursor the offset after `offset += 2`.
SegmentEndFromMarker(arr, cursor) == cursor - 2 + Read16(arr, cursor)

SegmentEnd(arr, cursor) == cursor + Read16(arr, cursor)

\* What one evaluation of the loop condition and body does at cursor `at`:
\* leave the loop without dimensions, leave it with those of a SOF segment, or
\* go round again at `next`.
WalkStep(arr, at) ==
    IF ~(at < arr.len) THEN [exit |-> TRUE, dims |-> NoDimensions, next |-> at]
    ELSE IF ByteAt(arr, at) # 255 THEN [exit |-> TRUE, dims |-> NoDimensions, next |-> at]
    ELSE IF IsSOF(ByteAt(arr, at + 1))
         THEN [exit |-> TRUE, dims |-> SofDimensions(arr, at + 2), next |-> at + 2]
         ELSE [exit |-> FALSE, dims |-> NoDimensions, next |-> SegmentEnd(arr, at + 2)]

\* The JPEG marker walk, entered with offset = 2.
RECURSIVE JpegWalk(_, _)
JpegWalk(arr, at) ==
    IF WalkStep(arr, at).exit THEN WalkStep(arr, at).dims
    ELSE JpegWalk(arr, WalkStep(arr, at).next)

\* The IHDR fields, read only when bytes.length >= 24.
PngDimensionsLow16(arr) ==
    IF arr.len >= 24
    THEN [found |-> TRUE, width |-> Read16(arr, 18), height |-> Read16(arr, 22)]
    ELSE NoDimensions

PngDimensions(arr) ==
    IF arr.len >= 24
    THEN [found |-> TRUE, width |-> Read32(arr, 16), height |-> Read32(arr, 20)]
    ELSE NoDimensions

\* Dimensions as extracted for the detected format; none for webp.
ExtractDimensions(format, arr) ==
    CASE format = "jpeg" -> JpegWalk(arr, 2)
      [] format = "png" -> PngDimensions(arr)
      [] OTHER -> NoDimensions

\* "ok" or the message of the error thrown by the dimension checks.
DimensionGate(width, height) ==
    IF width < MIN_DIMENSION \/ height < MIN_DIMENSION THEN ErrDimTooSmall
    ELSE IF width > MAX_DIMENSION \/ height > MAX_DIMENSION THEN ErrDimTooLarge
    ELSE "ok"

\* The response once the dimensions, if any, were extracted.
OutcomeRequiresDimensions(format, arr, dims) ==
    IF ~dims.found THEN Reject(ErrDimTooSmall)
    ELSE IF DimensionGate(dims.width, dims.height) # "ok"
    THEN Reject(DimensionGate(dims.width, dims.height))
    ELSE Accept(format, arr.len)

Outcome(format, arr, dims) ==
    IF dims.found /\ DimensionGate(dims.width, dims.height) # "ok"
    THEN Reject(DimensionGate(dims.width, dims.height))
    ELSE Accept(format, arr.len)

\* Size gate, magic-byte sniff and dimension checks on the decoded bytes.
Validate(arr) ==
    IF SizeGate(arr) # "ok" THEN Reject(SizeGate(arr))
    ELSE LET format == DetectFormat(arr)
         IN IF format = "" THEN Reject(ErrFormat)
            ELSE Outcome(format, arr, ExtractDimensions(format, arr))

\* The validator steps that ran on these bytes, in order.
ValidatorSteps(arr) ==
    IF SizeGate(arr) # "ok" THEN <<"sizeGate">>
    ELSE IF DetectFormat(arr) = "" THEN <<"sizeGate", "magicSniff">>
    ELSE <<"sizeGate", "magicSniff", "dimensions">>

(***************************************************************************)
(* validate-face-image: the request handler                                *)
(***************************************************************************)
LowerCase == {"a", "b", "c", "d", "e", "f", "g", "h", "i", "j", "k", "l", "m",
              "n", "o", "p", "q", "r", "s", "t", "u", "v", "w", "x", "y", "z"}

\* supabase.auth.getUser(token): the user of a valid token, else an error.
getUser(authHeader) == IF authHeader \in Principals THEN authHeader ELSE Null

currentPhotoCountFailClosed(read) ==
    IF read.error THEN MAX_UPLOADS_PER_DAY ELSE read.length

\* recentUploads?.face_photos?.length || 0
currentPhotoCount(read) == IF read.error THEN 0 ELSE read.length

\* The quota decision on the count read.
QuotaExceededAbove(count) == count > MAX_UPLOADS_PER_DAY

QuotaExceeded(count) == count >= MAX_UPLOADS_PER_DAY

\* user.id !== userId
OtherUserUnchecked(userId, claimed) == FALSE

OtherUser(userId, claimed) == userId # claimed

\* The subtype group ([a-z]+) of the data-URL pattern.
SubtypeMatches(subtype) ==
    Len(subtype) >= 1 /\ \A i \in 1..Len(subtype) : subtype[i] \in LowerCase

\* imageData.match(/^data:image\/([a-z]+);base64,(.+)$/)
MatchesDataUrlAnyMedia(imageData) ==
    /\ imageData.base64
    /\ imageData.data.n + imageData.data.pad >= 1

MatchesDataUrl(imageData) ==
    /\ imageData.mediaType = "image"
    /\ SubtypeMatches(imageData.subtype)
    /\ imageData.base64
    /\ imageData.data.n + imageData.data.pad >= 1

\* The whole handler as a function of the request and of what the profile
\* read returns.
Handle(req, read) ==
    IF req.authHeader = "none" THEN Reject(ErrMissingAuth)
    ELSE IF getUser(req.authHeader) = Null THEN Reject(ErrUnauthorized)
    ELSE IF ~req.bodyOk THEN Reject(ErrJson)
    ELSE IF OtherUser(getUser(req.authHeader), req.userId) THEN Reject(ErrOtherUser)
    ELSE IF QuotaExceeded(currentPhotoCount(read)) THEN Reject(ErrLimit)
    ELSE IF ~MatchesDataUrl(req.imageData) THEN Reject(ErrDataFormat)
    ELSE IF ~atobAccepts(req.imageData.data) THEN Reject(ErrBase64)
    ELSE Validate(atob(req.imageData.data))

(***************************************************************************)
(* Database: row-level policies and foreign keys, as the migrations leave  *)
(* them.  A caller is an authenticated principal or "anon"; auth.uid() of  *)
(* "anon" is NULL.  Row-level security is enabled on attendance_records    *)
(* and profiles by the migrations and on storage.objects by the platform.  *)
(***************************************************************************)
Callers == Principals \cup {"anon"}

\* auth.uid()
Uid(caller) == IF caller = "anon" THEN Null ELSE caller

\* SQL `a = b` as a policy expression uses it: NULL = x is not true.
SqlEq(a, b) == a # Null /\ b # Null /\ a = b

Create(name, table, cmd, roles) ==
    [op |-> "create", name |-> name, table |-> table, cmd |-> cmd, roles |-> roles]

Drop(name, table) ==
    [op |-> "drop", name |-> name, table |-> table, cmd |-> "", roles |-> ""]

\* The CREATE POLICY and DROP POLICY statements of the migrations up to the
\* storage policies, in the order they are applied.
PolicyStatements ==
    << Create("Anyone can mark attendance", "attendance_records", "INSERT", "public"),
       Create("Anyone can view attendance records", "attendance_records", "SELECT",
              "public"),
       Create("Users can view their own profile", "profiles", "SELECT", "public"),
       Create("Users can update their own profile", "profiles", "UPDATE", "public"),
       Create("Users can insert their own profile", "profiles", "INSERT", "public"),
       Drop("Anyone can mark attendance", "attendance_records"),
       Drop("Anyone can view attendance records", "attendance_records"),
       Create("Authenticated users can mark attendance", "attendance_records", "INSERT",
              "authenticated"),
       Create("Users can view their own attendance", "attendance_records", "SELECT",
              "authenticated"),
       Create("Anyone can upload face images", "storage.objects", "INSERT", "public"),
       Create("Anyone can view face images", "storage.objects", "SELECT", "public"),
       Create("Users can view their own face images", "storage.objects", "SELECT",
              "authenticated"),
       Create("Users can upload their own face images", "storage.objects", "INSERT",
              "authenticated"),
       Create("Users can update their own face images", "storage.objects", "UPDATE",
              "authenticated"),
       Create("Users can delete their own face images", "storage.objects", "DELETE",
              "authenticated") >>

\* All migrations: the last one drops the two public storage policies.
MigrationsWithoutDrop == PolicyStatements

Migrations ==
    PolicyStatements \o << Drop("Anyone can view face images", "storage.objects"),
                           Drop("Anyone can upload face images", "storage.objects") >>

\* The policies in force after the first n statements.
RECURSIVE PoliciesAfter(_, _)
PoliciesAfter(migs, n) ==
    IF n = 0 THEN {}
    ELSE LET before == PoliciesAfter(migs, n - 1)
             st == migs[n]
         IN IF st.op = "create"
            THEN before \cup {[name |-> st.name, table |-> st.table, cmd |-> st.cmd,
                               roles |-> st.roles]}
            ELSE {pol \in before : ~(pol.name = st.name /\ pol.table = st.table)}

Policies == PoliciesAfter(Migrations, Len(Migrations))

\* TO public / TO authenticated
RoleMatches(roles, caller) == roles = "public" \/ (roles = "authenticated" /\ caller # "anon")

\* The USING / WITH CHECK expression of the policy on a row; every object of
\* the model is in the bucket face-images.
PolicyExpression(name, caller, row) ==
    CASE name \in {"Anyone can mark attendance", "Anyone can view attendance records",
                   "Anyone can upload face images", "Anyone can view face images"} -> TRUE
      [] name \in {"Authenticated users can mark attendance",
                   "Users can view their own attendance"} ->
            SqlEq(Uid(caller), row.user_id)
      [] name \in {"Users can view their own face images",
                   "Users can upload their own face images",
                   "Users can update their own face images",
                   "Users can delete their own face images"} ->
            SqlEq(Uid(caller), row.owner)
      [] OTHER -> SqlEq(Uid(caller), row.id)

\* Permissive policies are combined with OR; with none for the command the
\* statement touches no row.
Allowed(table, cmd, caller, row) ==
    \E pol \in Policies :
        /\ pol.table = table /\ pol.cmd = cmd
        /\ RoleMatches(pol.roles, caller)
        /\ PolicyExpression(pol.name, caller, row)

\* attendance_records.user_id REFERENCES profiles(id) ON DELETE SET NULL
OnDeleteSetNull(rows, id) ==
    [k \in DOMAIN rows |-> IF rows[k].user_id = id
                           THEN [rows[k] EXCEPT !.user_id = Null]
                           ELSE rows[k]]

\* `${user.id}/${fileName}` of the Camera page: an object of the bucket, with
\* its first path segment.
userFileName(userId, n) == [owner |-> userId, sub |-> n]

\* The caller of the requests a supabase client with this session sends.
Caller(sess) == IF sess \in Principals THEN sess ELSE "anon"

NoStatement == [table |-> "", cmd |-> "", caller |-> "anon", target |-> Null, allowed |-> FALSE]

Statement(table, cmd, caller, target, allowed) ==
    [table |-> table, cmd |-> cmd, caller |-> caller, target |-> target,
     allowed |-> allowed]

\* Every principal has signed up: the trigger on auth.users created the profile.
DbIdle ==
    /\ auth_users = Principals
    /\ profiles = Principals
    /\ statement = NoStatement

(***************************************************************************)
(* validate-face-image: the requests the model sends                       *)
(***************************************************************************)
\* Segments a JPEG may carry between SOI and the frame header.
App0 == <<255, 224, 0, 4, 74, 70>>          \* APP0, length 4
EmptyApp1 == <<255, 225, 0, 2>>             \* APP1, length 2 (no payload)
Dht == <<255, 196, 0, 5, 0, 200, 0>>        \* DHT (C4), length 5
ZeroLength == <<255, 224, 0, 0>>            \* malformed: segment length 0

WellFormedSegments == {<<>>, App0, EmptyApp1, Dht, App0 \o Dht}
SofMarkers == (192..207) \ {196, 200, 204}
OtherMarkers == {196, 200, 204, 191, 208, 218}
DimValues == {50, 99, 100, 200, 4000, 4001, 5000}
Lengths == {999, 1000, 1001, 5242880, 5242881}
FillBytes == {0, 255}

\* SOI, the segments `pre`, then a frame header with marker m: marker, 2-byte
\* length, 1-byte precision, 2-byte height, 2-byte width.
JpegHead(pre, m, h, w) ==
    <<255, 216>> \o pre \o
    <<255, m, 0, 17, 8, h \div 256, h % 256, w \div 256, w % 256>>

\* The 8-byte signature, then IHDR: 4-byte length, "IHDR", width, height.
PngHead(wBytes, hBytes) ==
    <<137, 80, 78, 71, 13, 10, 26, 10, 0, 0, 0, 13, 73, 72, 68, 82>> \o wBytes \o hBytes

Be32(v) == <<v \div 16777216, (v \div 65536) % 256, (v \div 256) % 256, v % 256>>

Image(kind, head, len, fill, sof, w, h) ==
    [kind |-> kind, head |-> head, len |-> len, fill |-> fill, sof |-> sof,
     width |-> w, height |-> h]

\* JPEGs whose marker walk reaches a well-formed SOF segment.
JpegSofImages ==
    {Image("jpeg", JpegHead(pre, m, h, w), 1000, 0, TRUE, w, h) :
        pre \in WellFormedSegments, m \in SofMarkers, h \in DimValues, w \in DimValues}
    \cup
    {Image("jpeg", JpegHead(pre, 192, d[1], d[2]), len, fill, TRUE, d[2], d[1]) :
        pre \in {<<>>, App0}, d \in {<<200, 200>>, <<50, 50>>, <<200, 5000>>, <<4000, 100>>},
        len \in Lengths, fill \in FillBytes}

\* JPEGs in which the walk finds no SOF: a marker outside the SOF set where the
\* frame header would be, or a zero-length segment before it.
JpegNoSofImages ==
    {Image("jpeg", JpegHead(pre, m, 50, 50), len, fill, FALSE, 0, 0) :
        pre \in {<<>>, App0}, m \in OtherMarkers, len \in {1000, 5242880}, fill \in FillBytes}
    \cup
    {Image("jpeg", JpegHead(ZeroLength, 192, 50, 50), len, fill, FALSE, 0, 0) :
        len \in {1000, 5242880}, fill \in FillBytes}

\* A JPEG of length len whose first segment ends where `tail` begins, `tail`
\* being the last bytes of the file.
JpegEndingWith(len, tail) ==
    <<255, 216, 255, 224, (len - Len(tail) - 4) \div 256, (len - Len(tail) - 4) % 256>>
    \o [k \in 1..(len - Len(tail) - 6) |-> 0] \o tail

\* The ends of a JPEG cut off inside a marker or inside a frame header.
TruncatedTails == {<<255>>, <<255, 192>>, <<255, 192, 0, 17>>,
                   <<255, 192, 0, 17, 8, 0, 200>>, <<255, 224, 0>>}

\* JPEGs cut off inside a segment, and JPEGs whose segment length points past
\* the end of the file.
JpegTruncatedImages ==
    {Image("jpeg", JpegEndingWith(len, tail), len, 0, FALSE, 0, 0) :
        len \in {1000, 1001}, tail \in TruncatedTails}
    \cup
    {Image("jpeg", <<255, 216>> \o seg, len, fill, FALSE, 0, 0) :
        seg \in {<<255, 224, 255, 255>>, <<255, 224, 3, 229>>, <<255, 254, 3, 230, 255>>},
        len \in {1000, 1001}, fill \in FillBytes}

PngDimBytes == {Be32(99), Be32(100), Be32(200), Be32(4000), Be32(4001), Be32(65736),
                <<128, 0, 0, 0>>, <<255, 255, 255, 255>>}

PngImages ==
    {Image("png", PngHead(wb, hb), len, fill, FALSE, 0, 0) :
        wb \in PngDimBytes, hb \in PngDimBytes, len \in {1000, 5242880}, fill \in {0}}
    \cup
    {Image("png", PngHead(Be32(200), Be32(200)), len, fill, FALSE, 0, 0) :
        len \in Lengths, fill \in FillBytes}

WebpImages ==
    {Image("webp", <<82, 73, 70, 70>> \o rest, len, fill, FALSE, 0, 0) :
        rest \in {<<>>, <<36, 0, 0, 0, 87, 69, 66, 80>>, <<255, 192, 0, 17, 8, 0, 1, 0, 1>>},
        len \in Lengths, fill \in FillBytes}

\* Payloads that are no JPEG, PNG or RIFF: other formats and near misses of
\* each signature.
OtherImages ==
    {Image("other", head, len, fill, FALSE, 0, 0) :
        head \in {<<71, 73, 70, 56, 57, 97>>, <<66, 77>>, <<60, 115, 118, 103>>,
                  <<255, 216, 0>>, <<255, 216>>, <<255, 0, 255>>,
                  <<137, 80, 78, 0>>, <<137, 80, 0, 71>>, <<82, 73, 70, 0>>,
                  <<0, 216, 255>>, <<80, 78, 71>>},
        len \in Lengths, fill \in FillBytes}

Images == JpegSofImages \cup JpegNoSofImages \cup JpegTruncatedImages \cup PngImages
              \cup WebpImages \cup OtherImages

\* The bytes of an image.
ImageBytes(image) == Bytes(image.head, image.len, image.fill)

Subtype(name) ==
    CASE name = "jpeg" -> <<"j", "p", "e", "g">>
      [] name = "png" -> <<"p", "n", "g">>
      [] name = "gif" -> <<"g", "i", "f">>
      [] name = "svg+xml" -> <<"s", "v", "g", "+", "x", "m", "l">>
      [] name = "x-png" -> <<"x", "-", "p", "n", "g">>
      [] name = "JPEG" -> <<"J", "P", "E", "G">>
      [] OTHER -> <<>>

SubtypeNames == {"jpeg", "png", "gif", "svg+xml", "x-png", "JPEG", ""}

\* Ways a client may write the payload of the data URL.
\*   ok        data:image/<subtype>;base64,<padded base64>
\*   unpadded  the same without the trailing '='
\*   text      data:text/<subtype>;base64,...
\*   nobase64  data:image/<subtype>,...
\*   empty     nothing after "base64,"
\*   badchar   a character outside the base64 alphabet in the data
\*   extra     one character too many (length 1 modulo 4)
\*   badpad    a '=' that does not complete a group of four
Variants == {"ok", "unpadded", "text", "nobase64", "empty", "badchar", "extra", "badpad"}

DataOf(image, variant) ==
    LET t == btoa(ImageBytes(image))
    IN CASE variant = "unpadded" -> [t EXCEPT !.pad = 0]
         [] variant = "empty" -> [t EXCEPT !.n = 0, !.pad = 0, !.patches = <<>>]
         [] variant = "badchar" -> [t EXCEPT !.patches = (5 :> BadChar) @@ t.patches]
         [] variant = "extra" -> [t EXCEPT !.n = 4 * (t.n \div 4) + 1, !.pad = 0]
         [] variant = "badpad" -> [t EXCEPT !.n = 4 * (t.n \div 4), !.pad = 1]
         [] OTHER -> t

DataUrl(image, subtypeName, variant) ==
    [mediaType |-> IF variant = "text" THEN "text" ELSE "image",
     subtype |-> Subtype(subtypeName),
     base64 |-> variant # "nobase64",
     data |-> DataOf(image, variant)]

Reads == {[error |-> TRUE, length |-> 0]} \cup
         {[error |-> FALSE, length |-> c] : c \in {0, 1, 19, 20, 21}}

GoodJpeg == Image("jpeg", JpegHead(App0, 192, 200, 200), 1000, 0, TRUE, 200, 200)
Gif == Image("other", <<71, 73, 70, 56, 57, 97>>, 1000, 0, FALSE, 0, 0)
TinyPng == Image("png", PngHead(Be32(200), Be32(200)), 999, 0, FALSE, 0, 0)

Input(authHeader, bodyOk, userId, read, image, subtypeName, variant) ==
    [authHeader |-> authHeader, bodyOk |-> bodyOk, userId |-> userId, read |-> read,
     image |-> image, subtypeName |-> subtypeName, variant |-> variant]

\* Every credential, claimed owner and stored count, on a few images.
GateInputs ==
    {Input(a, b, u, r, i, st, v) :
        a \in {"none", "invalid"} \cup Principals, b \in BOOLEAN, u \in Principals,
        r \in Reads, i \in {GoodJpeg, Gif, TinyPng}, st \in {"jpeg", "svg+xml"},
        v \in {"ok", "text"}}

\* Every image under several declared subtypes, sent by its owner.
ImageInputs ==
    {Input("u1", TRUE, "u1", [error |-> FALSE, length |-> 0], i, st, "ok") :
        i \in Images, st \in {"jpeg", "png", "gif"}}

\* Every way of writing the data URL.
UrlInputs ==
    {Input("u1", TRUE, "u1", [error |-> FALSE, length |-> 1], i, st, v) :
        i \in {GoodJpeg, Gif, TinyPng,
               Image("webp", <<82, 73, 70, 70>>, 5242880, 255, FALSE, 0, 0),
               Image("png", PngHead(Be32(4000), Be32(4000)), 1001, 0, FALSE, 0, 0)},
        st \in SubtypeNames, v \in Variants}

Inputs == GateInputs \cup ImageInputs \cup UrlInputs

NoBytes == Bytes(<<>>, 0, 0)
NoResponse == [valid |-> FALSE, httpStatus |-> 0, error |-> "", format |-> "", size |-> 0]
NoRequest == [authHeader |-> "none", bodyOk |-> FALSE, userId |-> Null,
              imageData |-> DataUrl(Image("other", <<>>, 0, 0, FALSE, 0, 0), "", "empty")]

\* The Camera page before it is opened.
AttIdle ==
    /\ user = Null
    /\ profile = Null
    /\ isProcessing = FALSE
    /\ status = "scanning"
    /\ message = "Checking authentication..."
    /\ hasDetectedRef = FALSE
    /\ captured = Null
    /\ pc = "idle"
    /\ sub = 0
    /\ queued = 0
    /\ imageUrl = Null
    /\ uploadError = "none"
    /\ urlError = "none"
    /\ dbError = "none"
    /\ storage = {}
    /\ attendance_records = <<>>
    /\ log = <<>>

\* No request is being handled.
IngIdle ==
    /\ request = NoRequest
    /\ profileRead = [error |-> TRUE, length |-> 0]
    /\ img = Image("other", <<>>, 0, 0, FALSE, 0, 0)
    /\ ipc = "idle"
    /\ authUser = Null
    /\ bytes = NoBytes
    /\ offset = 0
    /\ response = NoResponse
    /\ executed = <<>>

\* No enrollment component is mounted.
EnrIdle ==
    /\ newUserId = ""
    /\ session = "none"
    /\ photos = <<>>
    /\ uploading = FALSE
    /\ epc = "idle"
    /\ photoIndex = 0
    /\ uploadedUrls = <<>>
    /\ batches = 0
    /\ toast = "none"
    /\ face_photos = <<>>

\* The QRScanner page is not mounted.
QrIdle ==
    /\ route = "/"
    /\ qsession = "none"
    /\ scanning = FALSE
    /\ qstatus = "idle"
    /\ scannerRef = 0
    /\ scanner = <<>>
    /\ starts = 0
    /\ inv = 0
    /\ qpc = <<>>
    /\ qrCode = <<>>
    /\ qstart = <<>>
    /\ qtarget = <<>>
    /\ qprofile = <<>>
    /\ quser = <<>>
    /\ resetTimers = 0
    /\ navTimer = FALSE
    /\ qlog = {}

\* No request to send-attendance-email is being handled.
FnIdle ==
    /\ mreq = [method |-> "", authHeader |-> "none", bodyOk |-> FALSE, email |-> Null]
    /\ mpc = "idle"
    /\ muser = Null
    /\ mresponse = 0
    /\ sent = <<>>

IngInit ==
    \E in \in Inputs :
        /\ request = [authHeader |-> in.authHeader, bodyOk |-> in.bodyOk,
                      userId |-> in.userId,
                      imageData |-> DataUrl(in.image, in.subtypeName, in.variant)]
        /\ profileRead = in.read
        /\ img = in.image
        /\ ipc = "authenticate"
        /\ authUser = Null
        /\ bytes = NoBytes
        /\ offset = 0
        /\ response = NoResponse
        /\ executed = <<>>
        /\ AttIdle
        /\ EnrIdle
        /\ DbIdle
        /\ QrIdle
        /\ FnIdle

\* The catch block: every thrown error becomes a 400 response.
Respond(r) ==
    /\ response' = r
    /\ ipc' = "done"

\* Authorization header and auth.getUser(token).
serve_authenticate ==
    /\ ipc = "authenticate"
    /\ executed' = Append(executed, "authenticate")
    /\ IF request.authHeader = "none"
       THEN Respond(Reject(ErrMissingAuth)) /\ UNCHANGED authUser
       ELSE IF getUser(request.authHeader) = Null
            THEN Respond(Reject(ErrUnauthorized)) /\ UNCHANGED authUser
            ELSE /\ authUser' = getUser(request.authHeader)
                 /\ ipc' = "authorize"
                 /\ UNCHANGED response
    /\ UNCHANGED <<request, profileRead, img, bytes, offset>>
    /\ UNCHANGED <<attVars, enrVars, dbVars, qrVars, fnVars>>

\* req.json() and the check that the user uploads for themselves.
serve_authorize ==
    /\ ipc = "authorize"
    /\ executed' = Append(executed, "authorize")
    /\ IF ~request.bodyOk
       THEN Respond(Reject(ErrJson))
       ELSE IF OtherUser(authUser, request.userId)
            THEN Respond(Reject(ErrOtherUser))
            ELSE ipc' = "quota" /\ UNCHANGED response
    /\ UNCHANGED <<request, profileRead, img, authUser, bytes, offset>>
    /\ UNCHANGED <<attVars, enrVars, dbVars, qrVars, fnVars>>

\* The read of profiles.face_photos and the limit on the stored count.
serve_quota ==
    /\ ipc = "quota"
    /\ executed' = Append(executed, "quotaRead")
    /\ IF QuotaExceeded(currentPhotoCount(profileRead))
       THEN Respond(Reject(ErrLimit))
       ELSE ipc' = "decode" /\ UNCHANGED response
    /\ UNCHANGED <<request, profileRead, img, authUser, bytes, offset>>
    /\ UNCHANGED <<attVars, enrVars, dbVars, qrVars, fnVars>>

\* The data-URL pattern, atob and the copy into the Uint8Array.
serve_decode ==
    /\ ipc = "decode"
    /\ executed' = Append(executed, "decode")
    /\ IF ~MatchesDataUrl(request.imageData)
       THEN Respond(Reject(ErrDataFormat)) /\ UNCHANGED bytes
       ELSE IF ~atobAccepts(request.imageData.data)
            THEN Respond(Reject(ErrBase64)) /\ UNCHANGED bytes
            ELSE /\ bytes' = atob(request.imageData.data)
                 /\ ipc' = "validate"
                 /\ UNCHANGED response
    /\ UNCHANGED <<request, profileRead, img, authUser, offset>>
    /\ UNCHANGED <<attVars, enrVars, dbVars, qrVars, fnVars>>

\* Size gate and magic-byte sniff; a JPEG enters the marker walk with
\* offset = 2, every other payload gets its response (PNG after the IHDR
\* dimension checks).
serve_validate ==
    /\ ipc = "validate"
    /\ executed' = executed \o ValidatorSteps(bytes)
    /\ IF SizeGate(bytes) = "ok" /\ DetectFormat(bytes) = "jpeg"
       THEN /\ offset' = 2
            /\ ipc' = "walk"
            /\ UNCHANGED response
       ELSE /\ Respond(Validate(bytes))
            /\ UNCHANGED offset
    /\ UNCHANGED <<request, profileRead, img, authUser, bytes>>
    /\ UNCHANGED <<attVars, enrVars, dbVars, qrVars, fnVars>>

\* One evaluation of `while (offset < bytes.length)` and of the loop body.
serve_jpegWalk ==
    /\ ipc = "walk"
    /\ offset' = WalkStep(bytes, offset).next
    /\ IF WalkStep(bytes, offset).exit
       THEN Respond(Outcome("jpeg", bytes, WalkStep(bytes, offset).dims))
       ELSE UNCHANGED <<ipc, response>>
    /\ UNCHANGED <<request, profileRead, img, authUser, bytes, executed>>
    /\ UNCHANGED <<attVars, enrVars, dbVars, qrVars, fnVars>>

IngNext ==
    \/ serve_authenticate
    \/ serve_authorize
    \/ serve_quota
    \/ serve_decode
    \/ serve_validate
    \/ serve_jpegWalk

(***************************************************************************)
(* Camera page: messages                                                   *)
(***************************************************************************)
MsgReady == "Camera ready. Click 'Capture Attendance' when ready."
MsgDetecting == "Detecting face..."
MsgNoFace == "No face detected. Please try again."
MsgDetectError == "Error detecting face. Please try again."
MsgUploading == "Uploading to Cloud..."
MsgSaving == "Saving to database..."
MsgPresent == "Present Marked"
MsgCompleted == "Attendance Recorded Successfully! Check your email."
MsgError == "Error recording attendance. Please try again."

Call(op, res) == [sub |-> sub, op |-> op, res |-> res]

\* The Capture button is rendered only in this state (render guard).
CaptureButtonRendered == status = "scanning" /\ ~isProcessing

AttInit ==
    /\ user \in Principals \cup {Null}
    /\ profile \in {user, Null}
    /\ isProcessing = FALSE
    /\ status = "scanning"
    /\ message = MsgReady
    /\ hasDetectedRef = FALSE
    /\ captured = Null
    /\ pc = "idle"
    /\ sub = 0
    /\ queued = 0
    /\ imageUrl = Null
    /\ uploadError = "none"
    /\ urlError = "none"
    /\ dbError = "none"
    /\ storage = {}
    /\ attendance_records = <<>>
    /\ log = <<>>
    /\ IngIdle
    /\ EnrIdle
    /\ DbIdle
    /\ QrIdle
    /\ FnIdle

\* The catch block of sendAttendance, up to arming its 3 s timer: the error is
\* written to the console, the page shows one fixed message.
sendAttendance_catch ==
    /\ status' = "error"
    /\ message' = MsgError
    /\ pc' = "errorTimer"

\* handleCapture up to its first await (the face detector call).
handleCapture ==
    /\ pc = "idle"
    /\ CaptureButtonRendered
    /\ sub < MaxSubmissions
    /\ IF isProcessing \/ user = Null \/ profile = Null
       THEN UNCHANGED attVars
       ELSE /\ isProcessing' = TRUE
            /\ message' = MsgDetecting
            /\ sub' = sub + 1
            /\ pc' = "detect"
            /\ imageUrl' = Null
            /\ uploadError' = "none"
            /\ urlError' = "none"
            /\ dbError' = "none"
            /\ UNCHANGED <<user, profile, status, hasDetectedRef, captured, storage,
                           attendance_records, log>>
    /\ UNCHANGED <<queued, ingVars, enrVars, dbVars, qrVars, fnVars>>

\* Two clicks dispatched before the page has re-rendered: both run the handler
\* of the same render, in which isProcessing is false, so both pass the guard,
\* call setIsProcessing(true) and await the detector.
handleCapture_twice ==
    /\ pc = "idle"
    /\ CaptureButtonRendered
    /\ sub + queued + 2 <= MaxSubmissions
    /\ ~(isProcessing \/ user = Null \/ profile = Null)
    /\ isProcessing' = TRUE
    /\ message' = MsgDetecting
    /\ sub' = sub + 1
    /\ queued' = queued + 1
    /\ pc' = "detect"
    /\ imageUrl' = Null
    /\ uploadError' = "none"
    /\ urlError' = "none"
    /\ dbError' = "none"
    /\ UNCHANGED <<user, profile, status, hasDetectedRef, captured, storage,
                   attendance_records, log>>
    /\ UNCHANGED <<ingVars, enrVars, dbVars, qrVars, fnVars>>

\* The detector call of an invocation that started beside another one settles
\* after that one has ended; pc follows this invocation from here on.
handleCapture_next ==
    /\ queued > 0
    /\ pc \in {"idle", "completed"}
    /\ queued' = queued - 1
    /\ sub' = sub + 1
    /\ pc' = "detect"
    /\ imageUrl' = Null
    /\ uploadError' = "none"
    /\ urlError' = "none"
    /\ dbError' = "none"
    /\ UNCHANGED <<user, profile, isProcessing, status, message, hasDetectedRef, captured,
                   storage, attendance_records, log>>
    /\ UNCHANGED <<ingVars, enrVars, dbVars, qrVars, fnVars>>

\* The detector resolved: no face and a thrown error both return to idle;
\* a detection enters sendAttendance, which runs to its first await.
\* frame: "blob"   canvas.toBlob yields a blob, the upload is issued
\*        "noctx"  videoRef.current or the 2d context is missing: no upload
\*        "throw"  toBlob yields null and blob.size throws into the catch
handleCapture_detected ==
    /\ pc = "detect"
    /\ \E detections \in {"face", "none", "throw"}, frame \in {"blob", "noctx", "throw"} :
         CASE detections = "none" ->
                /\ message' = MsgNoFace
                /\ isProcessing' = FALSE
                /\ pc' = "idle"
                /\ UNCHANGED <<user, profile, status, hasDetectedRef, captured, sub, imageUrl,
                               uploadError, urlError, dbError, storage,
                               attendance_records, log>>
           [] detections = "throw" ->
                /\ message' = MsgDetectError
                /\ isProcessing' = FALSE
                /\ pc' = "idle"
                /\ UNCHANGED <<user, profile, status, hasDetectedRef, captured, sub, imageUrl,
                               uploadError, urlError, dbError, storage,
                               attendance_records, log>>
           [] detections = "face" ->
                /\ hasDetectedRef' = TRUE
                /\ captured' \in Principals
                /\ CASE frame = "blob" ->
                          /\ message' = MsgUploading
                          /\ pc' = "upload"
                          /\ UNCHANGED <<status, log>>
                     [] frame = "noctx" ->
                          /\ message' = MsgSaving
                          /\ pc' = "insert"
                          /\ UNCHANGED <<status, log>>
                     [] frame = "throw" ->
                          /\ log' = Append(log, Call("canvas.toBlob", "throw"))
                          /\ sendAttendance_catch
                /\ UNCHANGED <<user, profile, isProcessing, sub, imageUrl, uploadError,
                               urlError, dbError, storage, attendance_records>>
    /\ UNCHANGED <<queued, ingVars, enrVars, dbVars, qrVars, fnVars>>

\* Where sendAttendance continues once the upload returned: an uploadError is
\* logged and the function goes on to the insert without an image reference.
PcAfterUploadFatal(res) == IF res = "error" THEN "errorTimer" ELSE "sign"

PcAfterUpload(res) == IF res = "error" THEN "insert" ELSE "sign"

\* supabase.storage.from("face-images").upload(userFileName, blob) settled:
\* resolved with data, resolved with an error, or rejected (the storage client
\* returns storage errors and rethrows any other, such as a failed fetch).
sendAttendance_uploaded ==
    /\ pc = "upload"
    /\ \E res \in {"ok", "error", "throw"} :
         /\ res = "ok" => Allowed("storage.objects", "INSERT", Caller(user),
                                  userFileName(user, sub))
         /\ log' = Append(log, Call("storage.upload", res))
         /\ storage' = IF res = "ok"
                       THEN storage \cup {userFileName(user, sub)}
                       ELSE storage
         /\ IF res = "throw"
            THEN /\ sendAttendance_catch
                 /\ UNCHANGED uploadError
            ELSE /\ uploadError' = res
                 /\ pc' = PcAfterUpload(res)
                 /\ message' = CASE PcAfterUpload(res) = "insert" -> MsgSaving
                                 [] PcAfterUpload(res) = "errorTimer" -> MsgError
                                 [] OTHER -> message
                 /\ status' = IF PcAfterUpload(res) = "errorTimer" THEN "error" ELSE status
    /\ UNCHANGED <<user, profile, isProcessing, hasDetectedRef, captured, sub, imageUrl,
                   urlError, dbError, attendance_records>>
    /\ UNCHANGED <<queued, ingVars, enrVars, dbVars, qrVars, fnVars>>

\* createSignedUrl(userFileName, 3600) resolved.
sendAttendance_signed ==
    /\ pc = "sign"
    /\ \E res \in {"ok", "error"} :
         /\ res = "ok" => Allowed("storage.objects", "SELECT", Caller(user),
                                  userFileName(user, sub))
         /\ urlError' = res
         /\ log' = Append(log, Call("storage.createSignedUrl", res))
         /\ imageUrl' = IF res = "ok" THEN <<user, sub>> ELSE imageUrl
    /\ message' = MsgSaving
    /\ pc' = "insert"
    /\ UNCHANGED <<user, profile, isProcessing, status, hasDetectedRef, captured, sub,
                   uploadError, dbError, storage, attendance_records>>
    /\ UNCHANGED <<queued, ingVars, enrVars, dbVars, qrVars, fnVars>>

\* The row sendAttendance inserts.
AttendanceRow == [user_id |-> user, status |-> "present", image_url |-> imageUrl,
                  sub |-> sub]

\* After the insert returned: its error is only logged.
StatusAfterInsert(res) == "success"

\* Where sendAttendance continues once the insert returned: there is no second
\* insert, the function goes on to the notification.
PcAfterInsertRetry(res) == IF res = "error" THEN "insert" ELSE "notify"

PcAfterInsert(res) == IF StatusAfterInsert(res) = "success" THEN "notify" ELSE "errorTimer"

\* from("attendance_records").insert({...}).select() resolved; the function then
\* marks success and issues the notification.
sendAttendance_inserted ==
    /\ pc = "insert"
    /\ \E res \in {"ok", "error"} :
         /\ res = "ok" => Allowed("attendance_records", "INSERT", Caller(user),
                                  AttendanceRow)
         /\ dbError' = res
         /\ log' = Append(log, Call("records.insert", res))
         /\ attendance_records' = IF res = "ok"
                                  THEN Append(attendance_records, AttendanceRow)
                                  ELSE attendance_records
         /\ status' = StatusAfterInsert(res)
         /\ message' = IF StatusAfterInsert(res) = "success" THEN MsgPresent ELSE MsgError
         /\ pc' = PcAfterInsert(res)
    /\ UNCHANGED <<user, profile, isProcessing, hasDetectedRef, captured, sub, imageUrl,
                   uploadError, urlError, storage>>
    /\ UNCHANGED <<queued, ingVars, enrVars, dbVars, qrVars, fnVars>>

\* What the settled notification does to the page status: nothing, the result of
\* invoke is not read and a rejection is caught by the inner try/catch.
StatusAfterNotifyFatal(res) == IF res = "ok" THEN status ELSE "error"

StatusAfterNotify(res) == status

\* functions.invoke("send-attendance-email") settled: resolved with data, resolved
\* with an error, or rejected; the 2 s timer is armed in every case.
sendAttendance_notified ==
    /\ pc = "notify"
    /\ \E res \in {"ok", "error", "throw"} :
         /\ log' = Append(log, Call("email.invoke", res))
         /\ status' = StatusAfterNotify(res)
         /\ pc' = IF StatusAfterNotify(res) = "error" THEN "errorTimer" ELSE "doneTimer"
         /\ message' = IF StatusAfterNotify(res) = "error" THEN MsgError ELSE message
    /\ UNCHANGED <<user, profile, isProcessing, hasDetectedRef, captured, sub, imageUrl,
                   uploadError, urlError, dbError, storage, attendance_records>>
    /\ UNCHANGED <<queued, ingVars, enrVars, dbVars, qrVars, fnVars>>

\* setTimeout(..., 2000) of the success path.
sendAttendance_doneTimer ==
    /\ pc = "doneTimer"
    /\ status' = "completed"
    /\ message' = MsgCompleted
    /\ pc' = "completed"
    /\ UNCHANGED <<user, profile, isProcessing, hasDetectedRef, captured, sub, imageUrl,
                   uploadError, urlError, dbError, storage, attendance_records, log>>
    /\ UNCHANGED <<queued, ingVars, enrVars, dbVars, qrVars, fnVars>>

\* The timer of the catch block without its setIsProcessing(false).
sendAttendance_errorTimerKeepsProcessing ==
    /\ pc = "errorTimer"
    /\ hasDetectedRef' = FALSE
    /\ status' = "scanning"
    /\ message' = MsgReady
    /\ pc' = "idle"
    /\ UNCHANGED <<user, profile, isProcessing, captured, sub, imageUrl, uploadError,
                   urlError, dbError, storage, attendance_records, log>>
    /\ UNCHANGED <<queued, ingVars, enrVars, dbVars, qrVars, fnVars>>

\* setTimeout(..., 3000) of the catch block.
sendAttendance_errorTimer ==
    /\ pc = "errorTimer"
    /\ hasDetectedRef' = FALSE
    /\ isProcessing' = FALSE
    /\ status' = "scanning"
    /\ message' = MsgReady
    /\ pc' = "idle"
    /\ UNCHANGED <<user, profile, captured, sub, imageUrl, uploadError, urlError,
                   dbError, storage, attendance_records, log>>
    /\ UNCHANGED <<queued, ingVars, enrVars, dbVars, qrVars, fnVars>>

AttNext ==
    \/ handleCapture
    \/ handleCapture_detected
    \/ sendAttendance_uploaded
    \/ sendAttendance_signed
    \/ sendAttendance_inserted
    \/ sendAttendance_notified
    \/ sendAttendance_doneTimer
    \/ sendAttendance_errorTimer

SpecAttend == AttInit /\ [][AttNext]_vars

\* The page stays mounted and its armed timers fire.
SpecAttendLive ==
    AttInit /\ [][AttNext]_vars /\ WF_vars(sendAttendance_errorTimer)

\* The page when clicks can also arrive faster than it re-renders.
ClicksNext ==
    \/ AttNext
    \/ handleCapture_twice
    \/ handleCapture_next

SpecAttendClicks == AttInit /\ [][ClicksNext]_vars

SpecIngest == IngInit /\ [][IngNext]_vars

\* The runtime runs the handler of a received request to its end.
SpecIngestLive == IngInit /\ [][IngNext]_vars /\ WF_vars(IngNext)

(***************************************************************************)
(* FaceEnrollment: uploadPhotos                                            *)
(***************************************************************************)
Photo(image, subtypeName) == [image |-> image, subtypeName |-> subtypeName]

Repeat(photo, n) == [k \in 1..n |-> photo]

\* A camera capture (canvas.toDataURL("image/jpeg")) and a file that is no
\* JPEG, PNG or WebP (FileReader.readAsDataURL of a GIF).
GoodPhoto == Photo(GoodJpeg, "jpeg")
BadPhoto == Photo(Gif, "gif")

\* The photo lists chosen before the upload button is clicked.
PhotoLists ==
    {<<GoodPhoto>>, <<BadPhoto>>, <<GoodPhoto, GoodPhoto>>, <<GoodPhoto, BadPhoto>>,
     <<BadPhoto, GoodPhoto>>, <<GoodPhoto, GoodPhoto, GoodPhoto>>,
     <<GoodPhoto, GoodPhoto, BadPhoto>>,
     Repeat(GoodPhoto, 20), Repeat(GoodPhoto, 21), Repeat(GoodPhoto, 20) \o <<BadPhoto>>}

\* The component as mounted by the Auth page after signUp, with the photos
\* chosen; the new profile row has face_photos = '{}'.
EnrInit ==
    /\ newUserId \in Principals
    /\ session \in {newUserId, "none"}
    /\ photos \in PhotoLists
    /\ uploading = FALSE
    /\ epc = "idle"
    /\ photoIndex = 0
    /\ uploadedUrls = <<>>
    /\ batches = 0
    /\ toast = "none"
    /\ face_photos = <<>>
    /\ AttIdle
    /\ IngIdle
    /\ DbIdle
    /\ QrIdle
    /\ FnIdle

\* The submit button is rendered when photos were chosen and is disabled
\* while uploading.
SubmitEnabled == Len(photos) > 0 /\ ~uploading

\* filePath = `${userId}/${fileName}`, fileName carrying i and Date.now().
filePath(userId, n, idx) == [owner |-> userId, sub |-> <<n, idx>>]

\* The body functions.invoke sends for photos[i], with the session's token
\* (the anon key, which is no user token, when there is no session).
ValidateRequest(photo) ==
    [authHeader |-> IF session = "none" THEN "invalid" ELSE session,
     bodyOk |-> TRUE,
     userId |-> newUserId,
     imageData |-> DataUrl(photo.image, photo.subtypeName, "ok")]

\* The catch block without the finally block.
uploadPhotos_catchWithoutFinally ==
    /\ toast' = "failed"
    /\ epc' = "idle"
    /\ photoIndex' = 0
    /\ uploadedUrls' = <<>>
    /\ UNCHANGED uploading

\* The catch and finally blocks: the failure toast, uploading reset.
uploadPhotos_catch ==
    /\ toast' = "failed"
    /\ uploading' = FALSE
    /\ epc' = "idle"
    /\ photoIndex' = 0
    /\ uploadedUrls' = <<>>

\* uploadPhotos up to its first await.
uploadPhotos ==
    /\ epc = "idle"
    /\ SubmitEnabled
    /\ batches < MaxBatches
    /\ IF Len(photos) = 0
       THEN /\ toast' = "nophotos"
            /\ UNCHANGED <<uploading, epc, photoIndex, uploadedUrls, batches>>
       ELSE /\ uploading' = TRUE
            /\ uploadedUrls' = <<>>
            /\ photoIndex' = 0
            /\ batches' = batches + 1
            /\ epc' = "validate"
            /\ UNCHANGED toast
    /\ UNCHANGED <<newUserId, session, photos, face_photos>>
    /\ UNCHANGED <<attVars, ingVars, dbVars, qrVars, fnVars>>

\* functions.invoke("validate-face-image") for photos[i] settled: a response of
\* the function (which reads the stored count itself), or a transport error.
uploadPhotos_validated ==
    /\ epc = "validate"
    /\ \E net \in {"response", "error"}, readError \in BOOLEAN :
         LET resp == Handle(ValidateRequest(photos[photoIndex + 1]),
                            [error |-> readError,
                             length |-> IF readError THEN 0 ELSE Len(face_photos)])
             res == IF net = "error" THEN "error"
                    ELSE IF resp.valid THEN "valid" ELSE "invalid"
         IN IF res = "valid"
            THEN /\ epc' = "upload"
                 /\ UNCHANGED <<uploading, photoIndex, uploadedUrls, toast>>
            ELSE uploadPhotos_catch
    /\ UNCHANGED <<newUserId, session, photos, batches, face_photos>>
    /\ UNCHANGED <<pageVars, storage, attendance_records, log, ingVars, dbVars, qrVars, fnVars>>

\* storage.from("face-images").upload(filePath, blob) resolved.
uploadPhotos_uploaded ==
    /\ epc = "upload"
    /\ \E res \in {"ok", "error"} :
         /\ res = "ok" => Allowed("storage.objects", "INSERT", Caller(session),
                                  filePath(newUserId, batches, photoIndex))
         /\ IF res = "ok"
            THEN /\ storage' = storage \cup {filePath(newUserId, batches, photoIndex)}
                 /\ epc' = "sign"
                 /\ UNCHANGED <<uploading, photoIndex, uploadedUrls, toast>>
            ELSE /\ uploadPhotos_catch
                 /\ UNCHANGED storage
    /\ UNCHANGED <<newUserId, session, photos, batches, face_photos>>
    /\ UNCHANGED <<pageVars, attendance_records, log, ingVars, dbVars, qrVars, fnVars>>

\* createSignedUrl(filePath, 31536000) resolved; i++ and the loop test.
uploadPhotos_signed ==
    /\ epc = "sign"
    /\ \E res \in {"ok", "error"} :
         /\ res = "ok" => Allowed("storage.objects", "SELECT", Caller(session),
                                  filePath(newUserId, batches, photoIndex))
         /\ IF res = "ok"
            THEN /\ uploadedUrls' = Append(uploadedUrls,
                                           filePath(newUserId, batches, photoIndex))
                 /\ photoIndex' = photoIndex + 1
                 /\ epc' = IF photoIndex + 1 < Len(photos) THEN "validate" ELSE "update"
                 /\ UNCHANGED <<uploading, toast>>
            ELSE uploadPhotos_catch
    /\ UNCHANGED <<newUserId, session, photos, batches, face_photos>>
    /\ UNCHANGED <<pageVars, storage, attendance_records, log, ingVars, dbVars, qrVars, fnVars>>

\* profiles.update({ face_photos: uploadedUrls }).eq("id", userId) resolved;
\* on success the toast, onComplete() (the Auth page unmounts the component)
\* and the finally block.
uploadPhotos_updated ==
    /\ epc = "update"
    /\ \E res \in {"ok", "error"} :
         IF res = "ok"
         THEN /\ face_photos' = IF Allowed("profiles", "UPDATE", Caller(session),
                                            [id |-> newUserId])
                                 THEN uploadedUrls
                                 ELSE face_photos
              /\ toast' = "success"
              /\ uploading' = FALSE
              /\ epc' = "complete"
              /\ UNCHANGED <<photoIndex, uploadedUrls>>
         ELSE /\ uploadPhotos_catch
              /\ UNCHANGED face_photos
    /\ UNCHANGED <<newUserId, session, photos, batches>>
    /\ UNCHANGED <<pageVars, storage, attendance_records, log, ingVars, dbVars, qrVars, fnVars>>

EnrNext ==
    \/ uploadPhotos
    \/ uploadPhotos_validated
    \/ uploadPhotos_uploaded
    \/ uploadPhotos_signed
    \/ uploadPhotos_updated

SpecEnroll == EnrInit /\ [][EnrNext]_vars

(***************************************************************************)
(* Database: the statements a caller can issue through the API             *)
(***************************************************************************)
\* First path segments a caller may name.
Segments == Principals \cup {"shared"}

DataInit ==
    /\ auth_users = Principals
    /\ profiles = Principals
    /\ statement = NoStatement
    /\ AttIdle
    /\ IngIdle
    /\ EnrIdle
    /\ QrIdle
    /\ FnIdle

\* INSERT INTO attendance_records by a caller, for any user_id.
records_insert ==
    /\ Len(attendance_records) < MaxRecords
    /\ \E caller \in Callers, uid \in profiles \cup {Null}, st \in {"present", "absent"} :
         LET row == [user_id |-> uid, status |-> st, image_url |-> Null,
                     sub |-> Len(attendance_records) + 1]
             ok == Allowed("attendance_records", "INSERT", caller, row)
         IN /\ statement' = Statement("attendance_records", "INSERT", caller, row, ok)
            /\ attendance_records' = IF ok THEN Append(attendance_records, row)
                                     ELSE attendance_records
    /\ UNCHANGED <<auth_users, profiles, storage, log>>
    /\ UNCHANGED <<pageVars, ingVars, enrVars, qrVars, fnVars>>

\* UPDATE attendance_records SET status = ... WHERE id = ... by a caller.
records_update ==
    /\ \E caller \in Callers, k \in DOMAIN attendance_records, st \in {"present", "absent"} :
         LET ok == /\ Allowed("attendance_records", "UPDATE", caller, attendance_records[k])
                   /\ Allowed("attendance_records", "UPDATE", caller,
                              [attendance_records[k] EXCEPT !.status = st])
         IN /\ statement' = Statement("attendance_records", "UPDATE", caller,
                                      attendance_records[k], ok)
            /\ attendance_records' = IF ok
                                     THEN [attendance_records EXCEPT ![k].status = st]
                                     ELSE attendance_records
    /\ UNCHANGED <<auth_users, profiles, storage, log>>
    /\ UNCHANGED <<pageVars, ingVars, enrVars, qrVars, fnVars>>

\* DELETE FROM attendance_records WHERE id = ... by a caller.
records_delete ==
    /\ \E caller \in Callers, k \in DOMAIN attendance_records :
         LET ok == Allowed("attendance_records", "DELETE", caller, attendance_records[k])
         IN /\ statement' = Statement("attendance_records", "DELETE", caller,
                                      attendance_records[k], ok)
            /\ attendance_records' =
                  IF ok THEN SubSeq(attendance_records, 1, k - 1)
                             \o SubSeq(attendance_records, k + 1, Len(attendance_records))
                  ELSE attendance_records
    /\ UNCHANGED <<auth_users, profiles, storage, log>>
    /\ UNCHANGED <<pageVars, ingVars, enrVars, qrVars, fnVars>>

\* The deletion of an account (auth administration): profiles.id cascades, the
\* user_id of the account's attendance records is set to NULL.
auth_deleteUser ==
    /\ \E uid \in auth_users :
         /\ auth_users' = auth_users \ {uid}
         /\ profiles' = profiles \ {uid}
         /\ attendance_records' = OnDeleteSetNull(attendance_records, uid)
         /\ statement' = Statement("auth.users", "DELETE", "admin", uid, TRUE)
    /\ UNCHANGED <<storage, log>>
    /\ UNCHANGED <<pageVars, ingVars, enrVars, qrVars, fnVars>>

\* storage upload by a caller to any path of the bucket.
objects_insert ==
    /\ Cardinality(storage) < MaxObjects
    /\ \E caller \in Callers, seg \in Segments, n \in 1..MaxObjects :
         LET object == userFileName(seg, n)
             ok == object \notin storage
                   /\ Allowed("storage.objects", "INSERT", caller, object)
         IN /\ statement' = Statement("storage.objects", "INSERT", caller, object, ok)
            /\ storage' = IF ok THEN storage \cup {object} ELSE storage
    /\ UNCHANGED <<auth_users, profiles, attendance_records, log>>
    /\ UNCHANGED <<pageVars, ingVars, enrVars, qrVars, fnVars>>

\* download / createSignedUrl of an object by a caller.
objects_select ==
    /\ \E caller \in Callers, object \in storage :
         statement' = Statement("storage.objects", "SELECT", caller, object,
                                Allowed("storage.objects", "SELECT", caller, object))
    /\ UNCHANGED <<auth_users, profiles, storage, attendance_records, log>>
    /\ UNCHANGED <<pageVars, ingVars, enrVars, qrVars, fnVars>>

\* move of an object to another folder by a caller: USING on the old row, and
\* the same expression as WITH CHECK on the new one.
objects_update ==
    /\ \E caller \in Callers, object \in storage, seg \in Segments :
         LET moved == [object EXCEPT !.owner = seg]
             ok == /\ moved \notin storage
                   /\ Allowed("storage.objects", "UPDATE", caller, object)
                   /\ Allowed("storage.objects", "UPDATE", caller, moved)
         IN /\ statement' = Statement("storage.objects", "UPDATE", caller, object, ok)
            /\ storage' = IF ok THEN (storage \ {object}) \cup {moved} ELSE storage
    /\ UNCHANGED <<auth_users, profiles, attendance_records, log>>
    /\ UNCHANGED <<pageVars, ingVars, enrVars, qrVars, fnVars>>

\* remove of an object by a caller.
objects_delete ==
    /\ \E caller \in Callers, object \in storage :
         LET ok == Allowed("storage.objects", "DELETE", caller, object)
         IN /\ statement' = Statement("storage.objects", "DELETE", caller, object, ok)
            /\ storage' = IF ok THEN storage \ {object} ELSE storage
    /\ UNCHANGED <<auth_users, profiles, attendance_records, log>>
    /\ UNCHANGED <<pageVars, ingVars, enrVars, qrVars, fnVars>>

DataNext ==
    \/ records_insert
    \/ records_update
    \/ records_delete
    \/ auth_deleteUser
    \/ objects_insert
    \/ objects_select
    \/ objects_update
    \/ objects_delete

SpecData == DataInit /\ [][DataNext]_vars

(***************************************************************************)
(* QRScanner page: startScanner, the decode callback of html5-qrcode and   *)
(* handleQRCodeScanned, one action per continuation between two awaits.    *)
(* Several invocations of handleQRCodeScanned may be suspended at once.    *)
(***************************************************************************)
\* What a QR code may decode to: the qr_code of a principal's profile
\* (profiles.qr_code is UNIQUE) or a text no profile carries.
Codes == Principals \cup {"unknown"}

QrOthers == <<pageVars, storage, log, ingVars, enrVars, dbVars, fnVars>>

QrCall(i, op, res) == [start |-> qstart[i], inv |-> i, op |-> op, res |-> res]

\* The row handleQRCodeScanned inserts: user_id is session.user.id.
QrAttendanceRow(i) ==
    [user_id |-> quser[i], status |-> "present", image_url |-> Null, sub |-> i]

\* A signed-in user has opened the page and checkAuth has found the session.
QrInit ==
    /\ route = "qr"
    /\ qsession \in Principals
    /\ scanning = FALSE
    /\ qstatus = "idle"
    /\ scannerRef = 0
    /\ scanner = <<>>
    /\ starts = 0
    /\ inv = 0
    /\ qpc = <<>>
    /\ qrCode = <<>>
    /\ qstart = <<>>
    /\ qtarget = <<>>
    /\ qprofile = <<>>
    /\ quser = <<>>
    /\ resetTimers = 0
    /\ navTimer = FALSE
    /\ qlog = {}
    /\ AttIdle
    /\ IngIdle
    /\ EnrIdle
    /\ DbIdle
    /\ FnIdle

\* The session the supabase client holds changes (sign-out, expiry, or a sign-in
\* as another account in another tab): getSession reads whatever it is.
auth_stateChanged ==
    /\ \E s \in (Principals \cup {"none"}) \ {qsession} : qsession' = s
    /\ UNCHANGED <<route, scanning, qstatus, scannerRef, scanner, starts, inv, qpc, qrCode,
                   qstart, qtarget, qprofile, quser, resetTimers, navTimer, qlog>>
    /\ UNCHANGED <<attendance_records, QrOthers>>

\* The "Start Scanner" button is rendered when !scanning && status === "idle";
\* the click runs startScanner up to `await html5QrCode.start(...)`.
startScanner ==
    /\ route = "qr"
    /\ ~scanning /\ qstatus = "idle"
    /\ starts < MaxStarts
    /\ scanning' = TRUE
    /\ qstatus' = "scanning"
    /\ starts' = starts + 1
    /\ scanner' = Append(scanner, "starting")
    /\ scannerRef' = starts + 1
    /\ UNCHANGED <<route, qsession, inv, qpc, qrCode, qstart, qtarget, qprofile, quser,
                   resetTimers, navTimer, qlog>>
    /\ UNCHANGED <<attendance_records, QrOthers>>

\* html5QrCode.start(...) settled: resolved, the camera runs; rejected, the
\* catch block of startScanner.
startScanner_started ==
    /\ \E s \in DOMAIN scanner, res \in {"ok", "throw"} :
         /\ scanner[s] = "starting"
         /\ IF res = "ok"
            THEN /\ scanner' = [scanner EXCEPT ![s] = "running"]
                 /\ UNCHANGED <<scanning, qstatus>>
            ELSE /\ scanner' = [scanner EXCEPT ![s] = "failed"]
                 /\ scanning' = FALSE
                 /\ qstatus' = "error"
    /\ UNCHANGED <<route, qsession, scannerRef, starts, inv, qpc, qrCode, qstart, qtarget,
                   qprofile, quser, resetTimers, navTimer, qlog>>
    /\ UNCHANGED <<attendance_records, QrOthers>>

\* The states of an Html5Qrcode object in which its scan loop may call the
\* success callback.  The loop belongs to html5-qrcode; the page passes the
\* callback and does nothing to keep it from being called again before
\* stop() has settled.
CallbackMayFire(s) == scanner[s] \in {"running", "stopping"}

\* The success callback: handleQRCodeScanned(decodedText) runs into
\* stopScanner up to `await scannerRef.current.stop()`.  The camera of one
\* scanner session is held on one code: a callback that fires again decodes
\* the same text.
handleQRCodeScanned ==
    /\ inv < MaxScans
    /\ \E s \in DOMAIN scanner, code \in Codes :
         /\ CallbackMayFire(s)
         /\ \A j \in DOMAIN qstart : qstart[j] = s => qrCode[j] = code
         /\ inv' = inv + 1
         /\ qrCode' = Append(qrCode, code)
         /\ qstart' = Append(qstart, s)
         /\ qtarget' = Append(qtarget, scannerRef)
         /\ qprofile' = Append(qprofile, Null)
         /\ quser' = Append(quser, Null)
         /\ qpc' = Append(qpc, "stop")
         /\ scanner' = IF scannerRef # 0 /\ scanner[scannerRef] = "running"
                       THEN [scanner EXCEPT ![scannerRef] = "stopping"]
                       ELSE scanner
    /\ UNCHANGED <<route, qsession, scanning, qstatus, scannerRef, starts, resetTimers,
                   navTimer, qlog>>
    /\ UNCHANGED <<attendance_records, QrOthers>>

\* stopScanner after its await: stop() resolved (clear(), the ref is set to
\* null) or threw (logged); with a null ref there was nothing to await.  Then
\* setScanning(false), and handleQRCodeScanned sets the status and issues the
\* profile lookup.  When the ref has come to hold another object, clear() is
\* called on that one and may throw before the ref is nulled.
stopScanner_settled ==
    /\ \E i \in DOMAIN qpc :
         /\ qpc[i] = "stop"
         /\ \/ /\ qtarget[i] # 0
               /\ scanner[qtarget[i]] = "stopping"
               /\ scanner' = [scanner EXCEPT ![qtarget[i]] = "stopped"]
               /\ \E r \in (IF scannerRef = qtarget[i] THEN {0} ELSE {0, scannerRef}) :
                    scannerRef' = r
            \/ UNCHANGED <<scanner, scannerRef>>
         /\ scanning' = FALSE
         /\ qstatus' = "scanning"
         /\ qpc' = [qpc EXCEPT ![i] = "lookup"]
    /\ UNCHANGED <<route, qsession, starts, inv, qrCode, qstart, qtarget, qprofile, quser,
                   resetTimers, navTimer, qlog>>
    /\ UNCHANGED <<attendance_records, QrOthers>>

\* The failure branches of handleQRCodeScanned: the status is error and a
\* timer is armed that resets it to idle after 3 s.
QrFail(i) ==
    /\ qstatus' = "error"
    /\ resetTimers' = resetTimers + 1
    /\ qpc' = [qpc EXCEPT ![i] = "done"]

\* from("profiles").select("*").eq("qr_code", qrCode).single() settled: a row
\* when the code is a profile's and the policies show that profile to the
\* caller, an error otherwise (no row, or a failed request).
lookup_done ==
    /\ \E i \in DOMAIN qpc, res \in {"row", "error"} :
         /\ qpc[i] = "lookup"
         /\ res = "row" => /\ qrCode[i] \in profiles
                           /\ Allowed("profiles", "SELECT", Caller(qsession),
                                      [id |-> qrCode[i]])
         /\ IF res = "row"
            THEN /\ qprofile' = [qprofile EXCEPT ![i] = qrCode[i]]
                 /\ qpc' = [qpc EXCEPT ![i] = "session"]
                 /\ UNCHANGED <<qstatus, resetTimers>>
            ELSE /\ QrFail(i)
                 /\ UNCHANGED qprofile
    /\ UNCHANGED <<route, qsession, scanning, scannerRef, scanner, starts, inv, qrCode,
                   qstart, qtarget, quser, navTimer, qlog>>
    /\ UNCHANGED <<attendance_records, QrOthers>>

OwnCodeAny(profileId, userId) == TRUE

\* !(profile.id !== session.user.id)
OwnCode(profileId, userId) == profileId = userId

\* supabase.auth.getSession() settled: without a session the page navigates to
\* "/"; another user's code is refused; otherwise the insert is issued.
session_got ==
    /\ \E i \in DOMAIN qpc :
         /\ qpc[i] = "session"
         /\ quser' = [quser EXCEPT ![i] = qsession]
         /\ IF qsession = "none"
            THEN /\ route' = "/"
                 /\ qpc' = [qpc EXCEPT ![i] = "done"]
                 /\ UNCHANGED <<qstatus, resetTimers>>
            ELSE /\ IF OwnCode(qprofile[i], qsession)
                    THEN /\ qpc' = [qpc EXCEPT ![i] = "insert"]
                         /\ UNCHANGED <<qstatus, resetTimers>>
                    ELSE QrFail(i)
                 /\ UNCHANGED route
    /\ UNCHANGED <<qsession, scanning, scannerRef, scanner, starts, inv, qrCode, qstart,
                   qtarget, qprofile, navTimer, qlog>>
    /\ UNCHANGED <<attendance_records, QrOthers>>

\* from("attendance_records").insert({...}) settled; the request carries the
\* token of the session the client holds when it is sent.
insert_done ==
    /\ \E i \in DOMAIN qpc, res \in {"ok", "error"} :
         /\ qpc[i] = "insert"
         /\ res = "ok" => Allowed("attendance_records", "INSERT", Caller(qsession),
                                  QrAttendanceRow(i))
         /\ qlog' = qlog \cup {QrCall(i, "records.insert", res)}
         /\ IF res = "ok"
            THEN /\ attendance_records' = Append(attendance_records, QrAttendanceRow(i))
                 /\ qpc' = [qpc EXCEPT ![i] = "notify"]
                 /\ UNCHANGED <<qstatus, resetTimers>>
            ELSE /\ QrFail(i)
                 /\ UNCHANGED attendance_records
    /\ UNCHANGED <<route, qsession, scanning, scannerRef, scanner, starts, inv, qrCode,
                   qstart, qtarget, qprofile, quser, navTimer>>
    /\ UNCHANGED QrOthers

\* functions.invoke("send-attendance-email") settled, whatever its outcome:
\* the status is success and the timer to /history is armed.
notify_done ==
    /\ \E i \in DOMAIN qpc :
         /\ qpc[i] = "notify"
         /\ qlog' = qlog \cup {QrCall(i, "email.invoke", "settled")}
         /\ qstatus' = "success"
         /\ navTimer' = TRUE
         /\ qpc' = [qpc EXCEPT ![i] = "done"]
    /\ UNCHANGED <<route, qsession, scanning, scannerRef, scanner, starts, inv, qrCode,
                   qstart, qtarget, qprofile, quser, resetTimers>>
    /\ UNCHANGED <<attendance_records, QrOthers>>

\* setTimeout(() => { setStatus("idle"); setMessage("") }, 3000)
resetTimer ==
    /\ resetTimers > 0
    /\ resetTimers' = resetTimers - 1
    /\ qstatus' = "idle"
    /\ UNCHANGED <<route, qsession, scanning, scannerRef, scanner, starts, inv, qpc, qrCode,
                   qstart, qtarget, qprofile, quser, navTimer, qlog>>
    /\ UNCHANGED <<attendance_records, QrOthers>>

\* setTimeout(() => navigate("/history"), 2000)
navigateTimer ==
    /\ navTimer
    /\ navTimer' = FALSE
    /\ route' = "/history"
    /\ UNCHANGED <<qsession, scanning, qstatus, scannerRef, scanner, starts, inv, qpc,
                   qrCode, qstart, qtarget, qprofile, quser, resetTimers, qlog>>
    /\ UNCHANGED <<attendance_records, QrOthers>>

QrNext ==
    \/ auth_stateChanged
    \/ startScanner
    \/ startScanner_started
    \/ handleQRCodeScanned
    \/ stopScanner_settled
    \/ lookup_done
    \/ session_got
    \/ insert_done
    \/ notify_done
    \/ resetTimer
    \/ navigateTimer

SpecScan == QrInit /\ [][QrNext]_vars

(***************************************************************************)
(* send-attendance-email: one request through the handler, one action per  *)
(* step between two awaits.                                                *)
(***************************************************************************)
\* auth.users.email of a principal.
EmailOf(u) == IF u = "u1" THEN "u1@school.example" ELSE "u2@school.example"

MailAddresses == {EmailOf(u) : u \in Principals} \cup {"guest@school.example", Null}

MailOthers == <<attVars, ingVars, enrVars, dbVars, qrVars>>

\* A request: its method, its authorization header (absent, a token of no
\* user, or the token of a principal), whether the body parses as JSON, and
\* the body's email field (Null when it has none).
MailInit ==
    /\ \E method \in {"POST", "OPTIONS"}, h \in {"none", "invalid"} \cup Principals,
          ok \in BOOLEAN, e \in MailAddresses :
         mreq = [method |-> method, authHeader |-> h, bodyOk |-> ok, email |-> e]
    /\ mpc = "start"
    /\ muser = Null
    /\ mresponse = 0
    /\ sent = <<>>
    /\ AttIdle
    /\ IngIdle
    /\ EnrIdle
    /\ DbIdle
    /\ QrIdle

MailRespond(code) ==
    /\ mresponse' = code
    /\ mpc' = "done"

\* if (req.method === "OPTIONS") return new Response(null, ...)
mail_options ==
    /\ mpc = "start"
    /\ mreq.method = "OPTIONS"
    /\ MailRespond(200)
    /\ UNCHANGED <<mreq, muser, sent>>
    /\ UNCHANGED MailOthers

\* The header check and auth.getUser(token): 401 without a header or without
\* a user.
mail_authenticate ==
    /\ mpc = "start"
    /\ mreq.method # "OPTIONS"
    /\ IF mreq.authHeader = "none" \/ getUser(mreq.authHeader) = Null
       THEN /\ MailRespond(401)
            /\ UNCHANGED muser
       ELSE /\ muser' = getUser(mreq.authHeader)
            /\ mpc' = "json"
            /\ UNCHANGED mresponse
    /\ UNCHANGED <<mreq, sent>>
    /\ UNCHANGED MailOthers

EmailMismatchUnchecked(userEmail, email) == FALSE

\* user.email !== email
EmailMismatch(userEmail, email) == userEmail # email

\* await req.json() (a body that does not parse throws into the catch block:
\* 500), then the recipient check: 403 on a mismatch.
mail_parsed ==
    /\ mpc = "json"
    /\ IF ~mreq.bodyOk
       THEN MailRespond(500)
       ELSE IF EmailMismatch(EmailOf(muser), mreq.email)
            THEN MailRespond(403)
            ELSE /\ mpc' = "send"
                 /\ UNCHANGED mresponse
    /\ UNCHANGED <<mreq, muser, sent>>
    /\ UNCHANGED MailOthers

\* resend.emails.send({to: [email], ...}) settled: resolved (with data or with
\* an error object) gives 200, thrown gives the catch block's 500.
mail_sent ==
    /\ mpc = "send"
    /\ \E res \in {"ok", "error", "throw"} :
         /\ sent' = Append(sent, mreq.email)
         /\ MailRespond(IF res = "throw" THEN 500 ELSE 200)
    /\ UNCHANGED <<mreq, muser>>
    /\ UNCHANGED MailOthers

MailNext ==
    \/ mail_options
    \/ mail_authenticate
    \/ mail_parsed
    \/ mail_sent

SpecMail == MailInit /\ [][MailNext]_vars

(***************************************************************************)
(* Claims about validate-face-image (checked under SpecIngest)             *)
(***************************************************************************)
Ran(step) == \E k \in DOMAIN executed : executed[k] = step

\* The i-th byte (from 0) of the image the client encoded.
SentByte(i) == ByteAt(ImageBytes(img), i)

\* C6: a request whose authenticated principal differs from the claimed owner
\* fails with the authorization error, before the quota read, before the data
\* URI is decoded and before any validator step runs.
C6_AuthorizationFirst ==
    authUser # Null /\ request.bodyOk /\ authUser # request.userId =>
        /\ ~Ran("quotaRead") /\ ~Ran("decode")
        /\ ~Ran("sizeGate") /\ ~Ran("magicSniff") /\ ~Ran("dimensions")
        /\ bytes = NoBytes
        /\ ipc \in {"authorize", "done"}
        /\ ipc = "done" => response = Reject(ErrOtherUser)

C6_Witness ==
    /\ ipc = "done"
    /\ authUser = "u1" /\ request.userId = "u2" /\ request.bodyOk
    /\ response.error = ErrOtherUser
    /\ executed = <<"authenticate", "authorize">>

\* C7: whatever the content, a decoded length above 5,242,880 is rejected as
\* too large and one below 1000 as too small; every accepted upload has a length
\* in [1000, 5242880], and neither bound is rejected by the size gate.
C7_SizeGate ==
    /\ response.valid =>
          /\ Ran("sizeGate")
          /\ bytes.len >= 1000 /\ bytes.len <= 5242880
          /\ img.len >= 1000 /\ img.len <= 5242880
          /\ response.size = img.len
    /\ ipc = "done" /\ Ran("sizeGate") =>
          /\ bytes.len = img.len
          /\ img.len > 5242880 => response = Reject(ErrFileTooLarge)
          /\ img.len < 1000 => response = Reject(ErrFileTooSmall)
          /\ img.len \in {1000, 5242880} =>
                response.error \notin {ErrFileTooLarge, ErrFileTooSmall}

C7_Witness ==
    /\ ipc = "done"
    /\ response.valid
    /\ img.kind = "webp"
    /\ response.size = 5242880

Signatures == {<<255, 216, 255>>, <<137, 80, 78, 71>>, <<82, 73, 70, 70>>}

SentMatches == {sg \in Signatures : \A i \in 1..Len(sg) : SentByte(i - 1) = sg[i]}

FormatOf(sg) ==
    CASE sg[1] = 255 -> "jpeg" [] sg[1] = 137 -> "png" [] sg[1] = 82 -> "webp"

\* The signatures tried in every order.
Orders ==
    {[k \in 1..3 |-> MAGIC_BYTES[p[k]]] : p \in Permutations(1..3)}

\* C8: a size-admissible payload whose leading bytes match none of the three
\* signatures is rejected as invalid format; an accepted payload matches exactly
\* one signature, which is the detected format in whatever order the signatures
\* are tried.
C8_MagicBytes ==
    ipc = "done" /\ Ran("magicSniff") =>
        /\ SentMatches = {} => response = Reject(ErrFormat)
        /\ response.valid =>
              /\ Cardinality(SentMatches) = 1
              /\ \A sg \in SentMatches : response.format = FormatOf(sg)
        /\ \A order \in Orders : DetectFormatIn(order, bytes) = DetectFormat(bytes)

C8_Witness ==
    /\ ipc = "done"
    /\ img.head = <<255, 216, 0>>
    /\ img.fill = 255
    /\ request.imageData.subtype = Subtype("jpeg")
    /\ response = Reject(ErrFormat)

\* C9: two requests that differ only in the image subtype declared in the data
\* URI get the same outcome, reason and detected format.
C9_MimeNeverInfluences ==
    ipc = "done" =>
        \A st \in SubtypeNames :
            LET other == Handle([request EXCEPT !.imageData.subtype = Subtype(st)],
                                profileRead)
            IN /\ other.valid = response.valid
               /\ other.error = response.error
               /\ other.format = response.format

InRange(d) == d >= 100 /\ d <= 4000

\* C10: a size-admissible JPEG whose marker walk reaches a well-formed SOF
\* segment encoding (width, height) is accepted exactly when both lie in
\* [100, 4000]; with an axis below 100 the reason is too small, otherwise with
\* an axis above 4000 it is too large.
C10_JpegDimensions ==
    ipc = "done" /\ Ran("sizeGate") /\ img.kind = "jpeg" /\ img.sof
                 /\ img.len >= 1000 /\ img.len <= 5242880 =>
        /\ response.valid <=> (InRange(img.width) /\ InRange(img.height))
        /\ response.valid => response.format = "jpeg"
        /\ img.width < 100 \/ img.height < 100 => response = Reject(ErrDimTooSmall)
        /\ /\ img.width >= 100 /\ img.height >= 100
           /\ img.width > 4000 \/ img.height > 4000
           => response = Reject(ErrDimTooLarge)

C10_Witness ==
    /\ ipc = "done"
    /\ img.kind = "jpeg" /\ img.sof
    /\ img.width = 5000 /\ img.height = 200
    /\ img.len = 5242880
    /\ response = Reject(ErrDimTooLarge)
\* The unsigned big-endian 32-bit value the client wrote at byte offset i lies
\* in [100, 4000], is below 100, is above 4000 (its two high bytes are then 0
\* or not).
SentU32InRange(i) ==
    /\ SentByte(i) = 0 /\ SentByte(i + 1) = 0
    /\ InRange(SentByte(i + 2) * 256 + SentByte(i + 3))

SentU32Below(i) ==
    /\ SentByte(i) = 0 /\ SentByte(i + 1) = 0
    /\ SentByte(i + 2) * 256 + SentByte(i + 3) < 100

SentU32Above(i) ==
    \/ SentByte(i) > 0 \/ SentByte(i + 1) > 0
    \/ SentByte(i + 2) * 256 + SentByte(i + 3) > 4000

\* C11: a size-admissible PNG is accepted exactly when the big-endian 32-bit
\* values at byte offsets 16 (width) and 20 (height) both lie in [100, 4000].
C11_PngDimensions ==
    ipc = "done" /\ Ran("sizeGate") /\ img.kind = "png"
                 /\ img.len >= 1000 /\ img.len <= 5242880 =>
        /\ response.valid <=> (SentU32InRange(16) /\ SentU32InRange(20))
        /\ response.valid => response.format = "png" /\ response.size = img.len

C11_Witness ==
    /\ ipc = "done"
    /\ img.kind = "png" /\ img.len = 5242880
    /\ img.head = PngHead(Be32(4000), Be32(4000))
    /\ response.valid

\* C19: a size-admissible PNG whose width or height, as an unsigned big-endian
\* 32-bit value, is above 4000 while neither is below 100 is rejected with the
\* too-large reason.
C19_PngTooLargeReason ==
    ipc = "done" /\ Ran("sizeGate") /\ img.kind = "png"
                 /\ img.len >= 1000 /\ img.len <= 5242880
                 /\ (SentU32Above(16) \/ SentU32Above(20))
                 /\ ~SentU32Below(16) /\ ~SentU32Below(20) =>
        response = Reject(ErrDimTooLarge)

\* C12: once the stored count has been read, the request is denied with the
\* upload-limit reason exactly when the count is 20 or more; with a count below
\* 20 the request goes on to the decode step.
C12_QuotaDecision ==
    ipc = "done" /\ Ran("quotaRead") /\ ~profileRead.error =>
        /\ profileRead.length >= 20 <=> response = Reject(ErrLimit)
        /\ profileRead.length < 20 <=> Ran("decode")

C12_Witness ==
    /\ ipc = "done"
    /\ ~profileRead.error /\ profileRead.length = 19
    /\ response.valid
AllSteps == <<"authenticate", "authorize", "quotaRead", "decode",
              "sizeGate", "magicSniff", "dimensions">>

IsPrefix(s, t) == Len(s) <= Len(t) /\ \A k \in 1..Len(s) : s[k] = t[k]

\* The request as sent: which step it fails.
FailsAuthentication == request.authHeader \notin Principals
FailsAuthorization == request.authHeader # request.userId
FailsQuota == ~profileRead.error /\ profileRead.length >= 20
FailsDecode ==
    \/ request.imageData.mediaType # "image"
    \/ ~request.imageData.base64
    \/ request.imageData.subtype = <<>>
    \/ \E k \in DOMAIN request.imageData.subtype :
           request.imageData.subtype[k] \notin LowerCase
    \/ request.imageData.data.n + request.imageData.data.pad = 0
    \/ ~atobAccepts(request.imageData.data)

ValidatorReasons == {ErrFileTooLarge, ErrFileTooSmall, ErrFormat, ErrDimTooSmall,
                     ErrDimTooLarge}

\* C20: the steps run in the order authentication, authorization, quota check,
\* data-URI decode, validator; the response carries the reason of the earliest
\* failing step and no step after it has run.
C20_StepOrder ==
    /\ IsPrefix(executed, AllSteps)
    /\ ipc = "done" /\ request.bodyOk =>
          IF FailsAuthentication
          THEN /\ response.error \in {ErrMissingAuth, ErrUnauthorized}
               /\ executed = SubSeq(AllSteps, 1, 1)
          ELSE IF FailsAuthorization
          THEN response = Reject(ErrOtherUser) /\ executed = SubSeq(AllSteps, 1, 2)
          ELSE IF FailsQuota
          THEN response = Reject(ErrLimit) /\ executed = SubSeq(AllSteps, 1, 3)
          ELSE IF FailsDecode
          THEN /\ response.error \in {ErrDataFormat, ErrBase64}
               /\ executed = SubSeq(AllSteps, 1, 4)
               /\ bytes = NoBytes
          ELSE /\ Ran("sizeGate")
               /\ response.valid \/ response.error \in ValidatorReasons

\* Over quota and a malformed data URI: the quota reason is reported.
C20_Witness ==
    /\ ipc = "done"
    /\ request.authHeader = request.userId /\ request.bodyOk
    /\ profileRead.length = 21
    /\ request.imageData.mediaType = "text"
    /\ response = Reject(ErrLimit)
    /\ ~Ran("decode")
\* C16: every iteration of the JPEG marker walk moves the cursor forward by at
\* least 2, and the handler of every request ends with a response: status 200
\* with valid true, or status 400 with valid false and a reason.
C16_Total ==
    /\ [][ipc = "walk" /\ ipc' = "walk" => offset' >= offset + 2]_vars
    /\ <>(/\ ipc = "done"
          /\ \/ response.valid /\ response.httpStatus = 200
             \/ ~response.valid /\ response.httpStatus = 400 /\ response.error # "")

\* A JPEG with a zero-length segment: the walk ends and the upload is accepted.
C16_Witness ==
    /\ ipc = "done"
    /\ img.head = JpegHead(ZeroLength, 192, 50, 50)
    /\ img.len = 5242880
    /\ offset = 4
    /\ response.valid

\* The marker walk over the bytes the client sent, from the marker at `at`:
\* whether it comes upon a SOF marker before it leaves the sequence or meets
\* a byte that starts no marker.
RECURSIVE SentWalkFindsSof(_)
SentWalkFindsSof(at) ==
    IF at >= img.len \/ SentByte(at) # 255 THEN FALSE
    ELSE IF SentByte(at + 1) \in (192..207) \ {196, 200, 204} THEN TRUE
    ELSE IF at + 2 >= img.len THEN FALSE
    ELSE SentWalkFindsSof(at + 2 + ToInt(SentByte(at + 2)) * 256 + ToInt(SentByte(at + 3)))

\* C24: a size-admissible sequence that begins with 52 49 46 46 is accepted as
\* webp whatever follows, and a size-admissible sequence that begins with
\* FF D8 FF in which the marker walk finds no SOF marker is accepted as jpeg.
C24_AcceptedWithoutDimensions ==
    ipc = "done" /\ Ran("sizeGate") /\ img.len >= 1000 /\ img.len <= 5242880 =>
        /\ (\A i \in 1..4 : SentByte(i - 1) = <<82, 73, 70, 70>>[i])
              => response = Accept("webp", img.len)
        /\ (\A i \in 1..3 : SentByte(i - 1) = <<255, 216, 255>>[i]) /\ ~SentWalkFindsSof(2)
              => response = Accept("jpeg", img.len)

\* A RIFF payload whose bytes after the signature read as a 1x1 frame header
\* is accepted.
C24_Witness ==
    /\ ipc = "done"
    /\ img.head = <<82, 73, 70, 70, 255, 192, 0, 17, 8, 0, 1, 0, 1>>
    /\ img.len = 1000
    /\ response = Accept("webp", 1000)

\* The big-endian 16-bit value the client wrote at byte offset i.
Sent16(i) == ToInt(SentByte(i)) * 256 + ToInt(SentByte(i + 1))

\* The response to a JPEG whose frame header gives this height and width.
JpegResponseFor(height, width) ==
    IF width < 100 \/ height < 100 THEN Reject(ErrDimTooSmall)
    ELSE IF width > 4000 \/ height > 4000 THEN Reject(ErrDimTooLarge)
    ELSE Accept("jpeg", img.len)

\* One round of the walk with the cursor on a marker (FF at offset, the
\* marker-type byte at offset + 1): at a SOF marker whose frame header lies
\* within the file the response is the one for the 16-bit values `h` and `w`
\* bytes after the marker-type byte; at any other marker the cursor moves past
\* the marker and on by the 16-bit length that follows it.
WalkRoundReads(h, w) ==
    ipc = "walk" /\ offset < img.len /\ SentByte(offset) = 255 =>
        IF SentByte(offset + 1) \in (192..207) \ {196, 200, 204}
        THEN offset + 8 < img.len =>
                response' = JpegResponseFor(Sent16(offset + 1 + h), Sent16(offset + 1 + w))
        ELSE ipc' = "walk" /\ offset' = offset + 2 + Sent16(offset + 2)

\* C25 as stated: on a SOF marker the height is the 16-bit value 3 bytes after
\* the marker-type byte and the width the one 5 bytes after it; a segment
\* without SOF is skipped by the 16-bit length following its marker.
C25_SofOffsetsFromMarkerType == [][WalkRoundReads(3, 5)]_vars

\* C25 as amended: the height is the 16-bit value 4 bytes after the
\* marker-type byte and the width the one 6 bytes after it, which is 3 and 5
\* bytes after the cursor once it has moved past the marker; a segment without
\* SOF is skipped by the 16-bit length following its marker.
C25_SofOffsetsFromCursor == [][WalkRoundReads(4, 6)]_vars

\* The walk found the frame header of a 100 x 4000 JPEG right after SOI.
C25_Witness ==
    /\ ipc = "done"
    /\ img.head = JpegHead(<<>>, 192, 4000, 100)
    /\ offset = 4
    /\ response = Accept("jpeg", img.len)

\* C26: when the read of the stored photos returns an error or no row, the
\* quota step lets the request through to the decoding of the data URI, and
\* the response is never the quota rejection.
C26_QuotaFailsOpen ==
    /\ [][ipc = "quota" /\ profileRead.error => ipc' = "decode" /\ response' = response]_vars
    /\ [](ipc = "done" /\ Ran("quotaRead") /\ profileRead.error =>
             Ran("decode") /\ response # Reject(ErrLimit))

\* The read failed and the photo was validated and accepted.
C26_Witness ==
    /\ ipc = "done"
    /\ profileRead.error
    /\ Ran("quotaRead")
    /\ response = Accept("jpeg", 1000)

(***************************************************************************)
(* Claims about the Camera page (checked under SpecAttend)                 *)
(***************************************************************************)
Done == status \in {"success", "completed"}
Errored == status = "error"

\* Some earlier call of the same submission had this op and result.
Preceded(i, op, res) ==
    \E j \in 1..(i - 1) : log[j].sub = log[i].sub /\ log[j].op = op /\ log[j].res = res

\* C1: a storage write or a record insert of a submission happens only after
\* validate-face-image returned valid:true for that submission.
C1_WritesOnlyAfterValidation ==
    \A i \in DOMAIN log :
        log[i].op \in {"storage.upload", "records.insert"}
            => Preceded(i, "validate-face-image", "valid")

\* C2: the success status is shown only when the insert returned without error:
\* a failed insert never ends in Done.
C2_SuccessOnlyAfterInsertOk == Done => dbError = "ok"

\* C3: the notification is invoked only after the submission's insert succeeded.
C3_NotifyOnlyAfterInsertOk ==
    \A i \in DOMAIN log :
        log[i].op = "email.invoke" => Preceded(i, "records.insert", "ok")

StorageFailed == uploadError = "error" \/ urlError = "error"

C5_NotifyNeverChangesOutcome ==
    [][pc = "notify" => /\ attendance_records' = attendance_records
                        /\ storage' = storage
                        /\ status' = status
                        /\ status' = "success"
                        /\ pc' = "doneTimer"]_vars

C5_Witness ==
    /\ status = "completed"
    /\ dbError = "ok"
    /\ Len(attendance_records) > 0
    /\ log[Len(log)].op = "email.invoke"
    /\ log[Len(log)].res \in {"error", "throw"}

\* The calls of submission n with this op.
CallsOf(n, op) == {i \in DOMAIN log : log[i].sub = n /\ log[i].op = op}

\* C14: a capture that passed face detection issues at most one insert, and at
\* most one attendance row exists for it.
C14_OneInsertPerSubmission ==
    \A n \in 1..sub :
        /\ Cardinality(CallsOf(n, "records.insert")) <= 1
        /\ Cardinality({k \in DOMAIN attendance_records :
                            attendance_records[k].sub = n}) <= 1
        /\ Len(attendance_records) <= sub

\* A second capture, after the first one failed: it inserted its one row.
C14_Witness ==
    /\ sub = 2
    /\ status = "completed"
    /\ Cardinality(CallsOf(2, "records.insert")) = 1
    /\ \E k \in DOMAIN attendance_records : attendance_records[k].sub = 2

\* C15: the row of a submission is recorded as present when the captured face
\* is that of the signed-in user and as absent when it is someone else's.
C15_StatusFollowsRecognition ==
    \A k \in DOMAIN attendance_records :
        attendance_records[k].sub = sub =>
            attendance_records[k].status =
                IF captured = attendance_records[k].user_id THEN "present" ELSE "absent"

\* The step whose exception brought the submission into the catch block: the
\* encoding of the frame (Capturing) or the storage put (Uploading).
FailedAt == IF log # <<>> /\ log[Len(log)].res = "throw" THEN log[Len(log)].op ELSE "none"

ThrowingSteps == {"canvas.toBlob", "storage.upload"}

Messages == {MsgReady, MsgDetecting, MsgNoFace, MsgDetectError, MsgUploading, MsgSaving,
             MsgPresent, MsgCompleted, MsgError}

\* C21: what the page shows in Errored identifies the step that failed: two
\* submissions that failed at different steps never show the same message.
C21_ErroredIdentifiesStage ==
    \A f1 \in ThrowingSteps, f2 \in ThrowingSteps, m \in Messages :
        [](Errored /\ FailedAt = f1 /\ message = m
              => [](Errored /\ FailedAt = f2 /\ f2 # f1 => message # m))

\* The page accepts a capture click: the button is shown and no submission runs.
CaptureReady == pc = "idle" /\ status = "scanning" /\ isProcessing = FALSE

\* C22: a capture in which no face is found, or in which the detector throws,
\* writes nothing, inserts nothing, notifies nobody and leaves the page ready
\* for a capture; and a submission that ended in the catch block is followed,
\* once its timer fired, by the page being ready for a capture again.
C22_FailedCaptureRetryable ==
    /\ [][pc = "detect" /\ pc' = "idle" =>
             /\ storage' = storage
             /\ attendance_records' = attendance_records
             /\ log' = log
             /\ CaptureReady']_vars
    /\ (Errored ~> CaptureReady)

\* After a submission that threw, the page is ready again, a second capture
\* found no face and the page is ready once more.
C22_Witness ==
    /\ CaptureReady
    /\ sub = 2
    /\ message = MsgNoFace
    /\ FailedAt # "none"

\* The detection/upload/insert sequences in progress.
InProgress ==
    queued + (IF pc \in {"detect", "upload", "sign", "insert", "notify"} THEN 1 ELSE 0)

\* C23: at most one submission of the page is in progress at any time, also
\* when a second click is delivered before the page re-renders.
C23_SingleFlight == InProgress <= 1

(***************************************************************************)
(* Claims about the database (checked under SpecData)                      *)
(***************************************************************************)
\* C17: attendance records are append-only: no step modifies a field of an
\* inserted record or removes it.
C17_AppendOnly ==
    [][\A k \in DOMAIN attendance_records :
          /\ k \in DOMAIN attendance_records'
          /\ attendance_records'[k] = attendance_records[k]]_vars

\* C18: the paths the flows write start with the id they are given, which is
\* the writer's; and a select, insert, update or delete of an object of the
\* bucket takes effect only for an authenticated caller whose id is the
\* object's first path segment, so every stored object sits in its writer's
\* folder.
C18_StorageIsolation ==
    /\ \A c \in Principals, n \in 0..MaxSubmissions :
          /\ userFileName(c, n).owner = c
          /\ filePath(c, n, n).owner = c
    /\ statement.table = "storage.objects" /\ statement.allowed =>
          /\ statement.caller \in Principals
          /\ statement.target.owner = statement.caller
    /\ \A object \in storage : object.owner \in Principals

\* An authenticated principal asks for an object in another one's folder
\* and is refused.
C18_Witness ==
    /\ statement.table = "storage.objects"
    /\ statement.cmd = "SELECT"
    /\ statement.caller = "u2"
    /\ statement.target \in storage
    /\ statement.target.owner = "u1"
    /\ ~statement.allowed

(***************************************************************************)
(* Claims about FaceEnrollment (checked under SpecEnroll)                  *)
(***************************************************************************)
\* C13: after any sequence of enrollment batches run one at a time by one
\* principal, the profile holds at most 20 photo references.
C13_CumulativeCap == Len(face_photos) <= 20

\* The URLs of a whole batch, in batch order.
BatchUrls == [k \in 1..Len(photos) |-> filePath(newUserId, batches, k - 1)]

\* C27: a run of uploadPhotos writes face_photos only in its last step, after
\* every photo of the batch passed validation, was stored and got its URL, and
\* then to exactly the batch's URLs in batch order; a run that fails leaves
\* face_photos as it was and the objects already stored in place; and the
\* uploading flag is false whenever no run is in progress.
C27_BatchAllOrNothing ==
    /\ [][face_photos' # face_photos =>
             /\ epc = "update" /\ epc' = "complete"
             /\ session = newUserId
             /\ \A k \in 1..Len(photos) : photos[k].image.kind \in {"jpeg", "png", "webp"}
             /\ \A k \in 1..Len(photos) : BatchUrls[k] \in storage
             /\ face_photos' = BatchUrls]_vars
    /\ [][epc # "idle" /\ epc' = "idle" => face_photos' = face_photos]_vars
    /\ [][storage \subseteq storage']_vars
    /\ [](epc \in {"idle", "complete"} => uploading = FALSE)

\* The third photo of a batch was refused after two were stored: the objects
\* are there, the profile is as before.
C27_Witness ==
    /\ epc = "idle"
    /\ toast = "failed"
    /\ photos = <<GoodPhoto, GoodPhoto, BadPhoto>>
    /\ Cardinality(storage) = 2
    /\ face_photos = <<>>
    /\ uploading = FALSE


(***************************************************************************)
(* Claims about the QRScanner page (checked under SpecScan)                *)
(***************************************************************************)
QrLogged(i, op) == {e \in qlog : e.inv = i /\ e.op = op}

\* A step of invocation i in which attendance_records gains the row `row`.
QrInsertStep(i, row) ==
    /\ qpc[i] = "insert" /\ qpc'[i] = "notify"
    /\ attendance_records' = Append(attendance_records, row)

\* C28: in the QR flow a record is inserted only when the scanned code is the
\* code of a profile whose id is the current session's principal, with that
\* principal as user_id; an unknown code, a missing session or another
\* user's code leads to no insert and no notification; a failed insert leads
\* to no notification and to the status error.
C28_QrInsertOnlyOwnCode ==
    /\ [][Len(attendance_records') > Len(attendance_records)
            => \E i \in DOMAIN qpc :
                  /\ QrInsertStep(i, QrAttendanceRow(i))
                  /\ qrCode[i] \in profiles
                  /\ qrCode[i] = qsession
                  /\ attendance_records'[Len(attendance_records')].user_id = qsession]_vars
    /\ [](\A e \in qlog : /\ qrCode[e.inv] \in Principals
                           /\ quser[e.inv] \in Principals
                           /\ qrCode[e.inv] = quser[e.inv])
    /\ [][\A i \in DOMAIN qpc :
             qpc[i] = "insert" /\ qpc'[i] # "insert"
             /\ attendance_records' = attendance_records
             => qstatus' = "error" /\ qpc'[i] = "done"]_vars
    /\ [](\A i \in DOMAIN qpc :
             QrLogged(i, "email.invoke") # {}
             => /\ \E e \in QrLogged(i, "records.insert") : e.res = "ok"
                /\ \A e \in QrLogged(i, "records.insert") : e.res = "ok")

\* One invocation was refused for another user's code, one inserted and notified.
C28_Witness ==
    /\ \E i \in DOMAIN qpc :
          /\ qpc[i] = "done" /\ quser[i] \in Principals /\ qprofile[i] \in Principals
          /\ qprofile[i] # quser[i]
    /\ \E i \in DOMAIN qpc :
          /\ qpc[i] = "done" /\ QrLogged(i, "email.invoke") # {}
          /\ \E k \in DOMAIN attendance_records :
                attendance_records[k] = QrAttendanceRow(i) /\ quser[i] = qrCode[i]

\* C29: one started scanner session inserts at most one record and sends at
\* most one notification, also when the decode callback fires again while the
\* first handleQRCodeScanned awaits the scanner stop or a store call.
C29_OneInsertPerSession ==
    \A s \in DOMAIN scanner :
        /\ Cardinality({e \in qlog : e.start = s /\ e.op = "records.insert"
                                     /\ e.res = "ok"}) <= 1
        /\ Cardinality({e \in qlog : e.start = s /\ e.op = "email.invoke"}) <= 1

(***************************************************************************)
(* Claims about send-attendance-email (checked under SpecMail)             *)
(***************************************************************************)
\* C30: an email is sent only when the request's credential is that of an
\* authenticated user and the requested recipient is that user's own email;
\* a missing or invalid credential is answered with 401 and a recipient
\* mismatch with 403, and in both cases no email is sent.
C30_MailOnlyToSelf ==
    /\ \A k \in DOMAIN sent :
          /\ mreq.authHeader \in Principals
          /\ sent[k] = mreq.email
          /\ sent[k] = EmailOf(mreq.authHeader)
    /\ mreq.method # "OPTIONS" /\ mreq.authHeader \notin Principals /\ mpc # "start"
       => mpc = "done" /\ mresponse = 401 /\ sent = <<>>
    /\ /\ mreq.method # "OPTIONS" /\ mreq.authHeader \in Principals /\ mreq.bodyOk
       /\ mreq.email # EmailOf(mreq.authHeader) /\ mpc \notin {"start", "json"}
       => mpc = "done" /\ mresponse = 403 /\ sent = <<>>

\* A request by u1 for u1's own address has been answered after the send.
C30_Witness ==
    /\ mpc = "done" /\ mresponse = 200
    /\ mreq.authHeader = "u1"
    /\ sent = <<"u1@school.example">>
=============================================================================
